---- MODULE Spec2Model ----
(***************************************************************************)
(* A model of the gox transpiler core (germtb/gox): the dual-mode lexer,   *)
(* the generator's host-code pass-through and import injection, and the    *)
(* bidirectional SourceMap.                                                *)
(*                                                                         *)
(* Text is modelled as Go models it: a string is a sequence of bytes       *)
(* (naturals 0..255), indexed from 0.  Runes are code points.              *)
(***************************************************************************)
EXTENDS Naturals, Integers, Sequences, FiniteSets, TLC

(***************************************************************************)
(* Bounds of the model.                                                    *)
(***************************************************************************)
\* Longest lexer input, counted in characters of LexAlphabet.
MaxLen == 4

(***************************************************************************)
(* Bytes, strings and runes.                                               *)
(***************************************************************************)
\* The printable ASCII characters in code order: 32 (space) to 95 (_), and
\* 97 (a) to 126 (~).  (96, the backquote, cannot stand in a string here.)
AsciiLow == " !\"#$%&'()*+,-./0123456789:;<=>?@ABCDEFGHIJKLMNOPQRSTUVWXYZ[\\]^_"
AsciiHigh == "abcdefghijklmnopqrstuvwxyz{|}~"

\* The byte of a one-character ASCII string.
Ord(c) ==
  IF c = "\n" THEN 10
  ELSE IF c = "\t" THEN 9
  ELSE IF c = "\r" THEN 13
  ELSE IF \E i \in 1..Len(AsciiLow) : SubSeq(AsciiLow, i, i) = c
    THEN 31 + (CHOOSE i \in 1..Len(AsciiLow) : SubSeq(AsciiLow, i, i) = c)
    ELSE 96 + (CHOOSE i \in 1..Len(AsciiHigh) : SubSeq(AsciiHigh, i, i) = c)

\* The bytes of an ASCII string literal.
Bytes(str) == [i \in 1..Len(str) |-> Ord(SubSeq(str, i, i))]

chLT        == Ord("<")
chGT        == Ord(">")
chSlash     == Ord("/")
chQuote     == Ord("\"")
chApos      == Ord("'")
chBacktick  == 96
chBackslash == Ord("\\")
chLBrace    == Ord("{")
chRBrace    == Ord("}")
chEquals    == Ord("=")
chDot       == Ord(".")
chStar      == Ord("*")
chHyphen    == Ord("-")
chUnderscore == Ord("_")
chSpace     == Ord(" ")
chNewline   == Ord("\n")
chTab       == Ord("\t")
chCR        == Ord("\r")

\* len(s) and s[i] of Go, i counted from 0.
ByteAt(s, i) == s[i + 1]

\* s[lo:hi] of Go; the caller checks SliceOK first (Go panics otherwise).
SliceOK(s, lo, hi) == 0 <= lo /\ lo <= hi /\ hi <= Len(s)
Slice(s, lo, hi) == SubSeq(s, lo + 1, hi)

\* utf8.RuneError
RuneError == 65533

IsCont(b) == b >= 128 /\ b <= 191

\* A well-formed two-, three- or four-byte encoding starts at offset i.
Valid2(s, i) ==
  /\ s[i + 1] >= 194 /\ s[i + 1] <= 223
  /\ i + 1 < Len(s) /\ IsCont(s[i + 2])

Valid3(s, i) ==
  /\ s[i + 1] >= 224 /\ s[i + 1] <= 239
  /\ i + 2 < Len(s) /\ IsCont(s[i + 2]) /\ IsCont(s[i + 3])
  /\ (s[i + 1] = 224 => s[i + 2] >= 160)
  /\ (s[i + 1] = 237 => s[i + 2] <= 159)

Valid4(s, i) ==
  /\ s[i + 1] >= 240 /\ s[i + 1] <= 244
  /\ i + 3 < Len(s) /\ IsCont(s[i + 2]) /\ IsCont(s[i + 3]) /\ IsCont(s[i + 4])
  /\ (s[i + 1] = 240 => s[i + 2] >= 144)
  /\ (s[i + 1] = 244 => s[i + 2] <= 143)

\* utf8.DecodeRuneInString(s[i:]): the rune and its width in bytes.
\* An empty string decodes to (RuneError, 0), an invalid or truncated
\* encoding to (RuneError, 1).
DecodeRune(s, i) ==
  IF i >= Len(s) THEN [r |-> RuneError, size |-> 0]
  ELSE IF s[i + 1] < 128 THEN [r |-> s[i + 1], size |-> 1]
  ELSE IF Valid2(s, i)
    THEN [r |-> (s[i + 1] - 192) * 64 + (s[i + 2] - 128), size |-> 2]
  ELSE IF Valid3(s, i)
    THEN [r |-> (s[i + 1] - 224) * 4096 + (s[i + 2] - 128) * 64 + (s[i + 3] - 128),
          size |-> 3]
  ELSE IF Valid4(s, i)
    THEN [r |-> (s[i + 1] - 240) * 262144 + (s[i + 2] - 128) * 4096
                  + (s[i + 3] - 128) * 64 + (s[i + 4] - 128),
          size |-> 4]
  ELSE [r |-> RuneError, size |-> 1]

\* utf8.RuneLen(r)
RuneLen(r) ==
  IF r < 128 THEN 1
  ELSE IF r < 2048 THEN 2
  ELSE IF r >= 55296 /\ r <= 57343 THEN -1
  ELSE IF r < 65536 THEN 3
  ELSE IF r <= 1114111 THEN 4
  ELSE -1

\* unicode.IsUpper: exact for ASCII and Latin-1 (A-Z, U+00C0-U+00D6,
\* U+00D8-U+00DE); above Latin-1 the table lists the Greek capitals
\* U+0391-U+03A9 only.
IsUpper(r) ==
  \/ (r >= 65 /\ r <= 90)
  \/ (r >= 192 /\ r <= 214)
  \/ (r >= 216 /\ r <= 222)
  \/ (r >= 913 /\ r <= 937 /\ r # 930)

\* unicode.IsLetter: exact for ASCII and Latin-1 (a-z, A-Z, U+00AA, U+00B5,
\* U+00BA, U+00C0-U+00D6, U+00D8-U+00F6, U+00F8-U+00FF); above Latin-1 the
\* table lists the Greek capitals and the Hebrew letters U+05D0-U+05EA only.
IsLetter(r) ==
  \/ (r >= 65 /\ r <= 90)
  \/ (r >= 97 /\ r <= 122)
  \/ r \in {170, 181, 186}
  \/ (r >= 192 /\ r <= 214)
  \/ (r >= 216 /\ r <= 246)
  \/ (r >= 248 /\ r <= 255)
  \/ (r >= 913 /\ r <= 937 /\ r # 930)
  \/ (r >= 1488 /\ r <= 1514)

\* unicode.IsDigit: the ASCII digits (no other digit is in the alphabets).
IsDigit(r) == r >= 48 /\ r <= 57

isIdentStart(r) == IsLetter(r) \/ r = chUnderscore

isIdentChar(r) == IsLetter(r) \/ IsDigit(r) \/ r = chUnderscore

(***************************************************************************)
(* The lexer.  A Lexer value is the record of the struct's fields; every   *)
(* method is an operator from the lexer before the call to the lexer after *)
(* it (and, for the token producers, the token returned).                  *)
(***************************************************************************)
\* New(input)
\* Decoded(s)[i] is utf8.DecodeRuneInString(s[i:]) for every offset i of s.
Decoded(s) == [i \in 0..Len(s) |-> DecodeRune(s, i)]

\* New(input).  The field dec is not a field of the Go struct: it holds, for
\* each offset of input, what utf8.DecodeRuneInString returns there, which is
\* all that peek, peekNext, peekAt and advance ask of the input.
NewLexer(input) ==
  [input |-> input, dec |-> Decoded(input), pos |-> 0, line |-> 1, column |-> 1,
   inJSX |-> FALSE, jsxDepth |-> 0, braceDepth |-> 0, inTag |-> FALSE,
   inClosingTag |-> FALSE, sawSlash |-> FALSE, needTagName |-> FALSE]

Token(typ, value, offset, line, column) ==
  [Type |-> typ, Value |-> value, Offset |-> offset, Line |-> line, Column |-> column]

\* The token a NextToken call hands back, with the lexer it leaves and the
\* bounds [lo:hi] of the input slice taken for the token's value (lo = hi = 0
\* when the value is a constant).  ok is FALSE when that slice is out of
\* range: Go aborts the call with a run-time panic and no token is returned.
Result(L, typ, offset, line, column, lo, hi) ==
  [lex |-> L,
   ok |-> SliceOK(L.input, lo, hi),
   lo |-> lo, hi |-> hi,
   tok |-> Token(typ, IF SliceOK(L.input, lo, hi) THEN Slice(L.input, lo, hi) ELSE <<>>,
                 offset, line, column)]

Fixed(L, tok) == [lex |-> L, ok |-> TRUE, lo |-> 0, hi |-> 0, tok |-> tok]

peek(L) == IF L.pos >= Len(L.input) THEN 0 ELSE L.dec[L.pos].r

peekNext(L) ==
  IF L.pos + 1 >= Len(L.input) THEN 0
  ELSE L.dec[L.pos + L.dec[L.pos].size].r

peekAt(L, offset) ==
  IF L.pos + offset >= Len(L.input) THEN 0
  ELSE L.dec[L.pos + offset].r

advance(L) ==
  IF L.pos >= Len(L.input) THEN L
  ELSE IF L.dec[L.pos].r = chNewline
    THEN [L EXCEPT !.line = @ + 1, !.column = 1, !.pos = @ + L.dec[L.pos].size]
    ELSE [L EXCEPT !.column = @ + 1, !.pos = @ + L.dec[L.pos].size]

makeToken(L, typ, value) ==
  Token(typ, value, L.pos - Len(value), L.line, L.column - Len(value))

RECURSIVE skipWhitespaceLoop(_)
skipWhitespaceLoop(L) ==
  IF L.pos < Len(L.input) /\ peek(L) \in {chSpace, chTab, chNewline, chCR}
    THEN skipWhitespaceLoop(advance(L))
    ELSE L

skipWhitespaceInTag(L) == IF ~L.inTag THEN L ELSE skipWhitespaceLoop(L)

\* The loop of lexGoString and lexGoRune: up to and over the closing
\* delimiter, a backslash taking the next character with it.
RECURSIVE quotedLoop(_, _)
quotedLoop(L, delim) ==
  IF L.pos >= Len(L.input) \/ peek(L) = delim THEN advance(L)
  ELSE quotedLoop(IF peek(L) = chBackslash THEN advance(advance(L)) ELSE advance(L), delim)

lexGoString(L) == quotedLoop(advance(L), chQuote)

lexGoRune(L) == quotedLoop(advance(L), chApos)

RECURSIVE rawStringLoop(_)
rawStringLoop(L) ==
  IF L.pos >= Len(L.input) THEN L
  ELSE IF peek(L) = chBacktick THEN advance(L)
  ELSE rawStringLoop(advance(L))

lexGoRawString(L) == rawStringLoop(advance(L))

RECURSIVE lexGoLineComment(_)
lexGoLineComment(L) ==
  IF L.pos < Len(L.input) /\ peek(L) # chNewline
    THEN lexGoLineComment(advance(L))
    ELSE L

RECURSIVE blockCommentLoop(_)
blockCommentLoop(L) ==
  IF L.pos >= Len(L.input) THEN L
  ELSE IF peek(L) = chStar /\ peekNext(L) = chSlash THEN advance(advance(L))
  ELSE blockCommentLoop(advance(L))

lexGoBlockComment(L) == blockCommentLoop(advance(advance(L)))

\* isJSXStart: the character after "<" is read as ONE BYTE, rune(input[pos+1]).
isJSXStart(L) ==
  IF peek(L) # chLT THEN FALSE
  ELSE LET nextPos == L.pos + 1
       IN IF nextPos >= Len(L.input) THEN FALSE
          ELSE LET next == ByteAt(L.input, nextPos)
               IN \/ next = chGT
                  \/ /\ next = chSlash
                     /\ nextPos + 1 < Len(L.input)
                     /\ ByteAt(L.input, nextPos + 1) = chGT
                  \/ isIdentStart(next)

\* lexJSXOpen: "<" at the start of an element, a closing tag or a fragment.
lexJSXOpen(L) ==
  LET start == L.pos
      L1 == advance(L)
  IN IF peek(L1) = chGT
       THEN LET L2 == [advance(L1) EXCEPT !.inTag = FALSE, !.jsxDepth = @ + 1]
            IN Fixed(L2, Token("JSX_FRAG_OPEN", Bytes("<>"), start, L2.line, L2.column - 2))
     ELSE IF peek(L1) = chSlash
       THEN LET L2 == advance(L1)
            IN IF peek(L2) = chGT
                 THEN LET L3 == advance(L2)
                          L4 == [L3 EXCEPT !.jsxDepth = @ - 1,
                                           !.inJSX = IF L3.jsxDepth - 1 = 0 THEN FALSE ELSE @]
                      IN Fixed(L4, Token("JSX_FRAG_CLOSE", Bytes("</>"), start,
                                         L4.line, L4.column - 3))
                 ELSE LET L3 == [L2 EXCEPT !.inTag = TRUE, !.inClosingTag = TRUE,
                                           !.needTagName = TRUE]
                      IN Fixed(L3, Token("JSX_OPEN", Bytes("</"), start,
                                         L3.line, L3.column - 2))
     ELSE LET L2 == [L1 EXCEPT !.inTag = TRUE, !.needTagName = TRUE, !.jsxDepth = @ + 1]
          IN Fixed(L2, Token("JSX_OPEN", Bytes("<"), start, L2.line, L2.column - 1))

RECURSIVE identLoop(_)
identLoop(L) ==
  IF L.pos < Len(L.input) /\ (isIdentChar(peek(L)) \/ peek(L) = chHyphen)
    THEN identLoop(advance(L))
    ELSE L

lexJSXIdentifier(L, typ) ==
  LET L1 == identLoop(L)
  IN Result(L1, typ, L.pos, L.line, L.column, L.pos, L1.pos)

RECURSIVE jsxStringLoop(_)
jsxStringLoop(L) ==
  IF L.pos < Len(L.input) /\ peek(L) # chQuote
    THEN IF peek(L) = chBackslash /\ peekNext(L) = chQuote
           THEN jsxStringLoop(advance(advance(L)))
           ELSE jsxStringLoop(advance(L))
    ELSE L

\* lexJSXString: the value is input[start+1 : pos-1], taken after the
\* closing quote was consumed (or the input ran out).
lexJSXString(L) ==
  LET L1 == advance(jsxStringLoop(advance(L)))
  IN Result(L1, "JSX_STRING", L.pos, L.line, L.column, L.pos + 1, L1.pos - 1)

\* The inner loop of lexNestedJSX for an opening tag: to the end of the tag.
RECURSIVE nestedTagEnd(_, _)
nestedTagEnd(L, depth) ==
  IF L.pos >= Len(L.input) THEN [lex |-> L, depth |-> depth]
  ELSE IF peek(L) = chGT THEN [lex |-> advance(L), depth |-> depth]
  ELSE IF peek(L) = chSlash /\ peekNext(L) = chGT
    THEN [lex |-> advance(advance(L)), depth |-> depth - 1]
  ELSE nestedTagEnd(advance(L), depth)

RECURSIVE nestedCloseLoop(_)
nestedCloseLoop(L) ==
  IF L.pos < Len(L.input) /\ peek(L) # chGT THEN nestedCloseLoop(advance(L)) ELSE L

\* One turn of lexNestedJSX's loop.
nestedStep(L, depth) ==
  IF peek(L) = chLT
    THEN IF peekNext(L) = chSlash
           THEN LET L2 == advance(advance(L))
                IN IF peek(L2) = chGT
                     THEN [lex |-> advance(L2), depth |-> depth - 1]
                     ELSE LET L3 == nestedCloseLoop(L2)
                          IN [lex |-> IF peek(L3) = chGT THEN advance(L3) ELSE L3,
                              depth |-> depth - 1]
         ELSE IF peekNext(L) = chGT
           THEN [lex |-> advance(advance(L)), depth |-> depth + 1]
         ELSE IF isIdentStart(peekNext(L))
           THEN nestedTagEnd(advance(L), depth + 1)
         ELSE [lex |-> advance(L), depth |-> depth]
    ELSE [lex |-> advance(L), depth |-> depth]

RECURSIVE nestedLoop(_, _)
nestedLoop(L, depth) ==
  IF L.pos >= Len(L.input) THEN L
  ELSE LET s == nestedStep(L, depth)
       IN IF s.depth = 0 THEN s.lex ELSE nestedLoop(s.lex, s.depth)

lexNestedJSX(L) == nestedLoop(L, 0)

\* The loop of lexJSXExpression; it leaves pos on the closing brace (or at
\* the end of the input) with braceDepth as the loop left it.
exprStep(L) ==
  LET ch == peek(L)
  IN IF ch = chLBrace THEN advance([L EXCEPT !.braceDepth = @ + 1])
     ELSE IF ch = chRBrace THEN advance([L EXCEPT !.braceDepth = @ - 1])
     ELSE IF ch = chQuote THEN lexGoString(L)
     ELSE IF ch = chApos THEN lexGoRune(L)
     ELSE IF ch = chBacktick THEN lexGoRawString(L)
     ELSE IF ch = chLT /\ isJSXStart(L) THEN lexNestedJSX(L)
     ELSE advance(L)

RECURSIVE exprLoop(_)
exprLoop(L) ==
  IF ~(L.pos < Len(L.input) /\ L.braceDepth > 0) THEN L
  ELSE IF peek(L) = chRBrace /\ L.braceDepth - 1 = 0 THEN [L EXCEPT !.braceDepth = 0]
  ELSE exprLoop(exprStep(L))

lexJSXExpression(L) ==
  LET L1 == [advance(L) EXCEPT !.braceDepth = 1]
      exprStart == L1.pos
      L2 == exprLoop(L1)
      L3 == [advance(L2) EXCEPT !.braceDepth = 0]
  IN Result(L3, "JSX_EXPR", L.pos, L.line, L.column, exprStart, L2.pos)

RECURSIVE textLoop(_)
textLoop(L) ==
  IF L.pos < Len(L.input) /\ peek(L) \notin {chLT, chLBrace, chRBrace}
    THEN textLoop(advance(L))
    ELSE L

lexJSXText(L) ==
  LET L1 == textLoop(L)
  IN Result(L1, "JSX_TEXT", L.pos, L.line, L.column, L.pos, L1.pos)

\* lexJSX: one token in markup mode.
lexJSX(L0) ==
  LET L == skipWhitespaceInTag(L0)
      ch == peek(L)
  IN IF L.pos >= Len(L.input) THEN Fixed(L, makeToken(L, "EOF", <<>>))
     ELSE IF ch = chLBrace THEN lexJSXExpression(L)
     ELSE IF ch = chRBrace /\ L.braceDepth > 0
       THEN LET L1 == [advance(L) EXCEPT !.braceDepth = @ - 1]
            IN Fixed(L1, makeToken(L1, "JSX_RBRACE", Bytes("}")))
     ELSE IF ch = chLT THEN lexJSXOpen(L)
     ELSE IF ch = chGT
       THEN LET L1 == advance(L)
                closes == L.inClosingTag \/ L.sawSlash
                L2 == [L1 EXCEPT !.inTag = FALSE, !.inClosingTag = FALSE,
                                 !.sawSlash = FALSE,
                                 !.jsxDepth = IF closes THEN @ - 1 ELSE @,
                                 !.inJSX = IF closes /\ L1.jsxDepth - 1 = 0 THEN FALSE ELSE @]
            IN Fixed(L2, makeToken(L2, "JSX_CLOSE", Bytes(">")))
     ELSE IF ch = chSlash
       THEN LET L1 == [advance(L) EXCEPT !.sawSlash = TRUE]
            IN Fixed(L1, makeToken(L1, "JSX_SLASH", Bytes("/")))
     ELSE IF L.inTag /\ ch = chEquals
       THEN LET L1 == advance(L)
            IN Fixed(L1, makeToken(L1, "JSX_EQUALS", Bytes("=")))
     ELSE IF L.inTag /\ ch = chQuote THEN lexJSXString(L)
     ELSE IF L.inTag /\ ch = chDot /\ peekNext(L) = chDot /\ peekAt(L, 2) = chDot
       THEN LET L1 == advance(advance(advance(L)))
            IN Fixed(L1, makeToken(L1, "JSX_SPREAD", Bytes("...")))
     ELSE IF L.inTag /\ isIdentStart(ch)
       THEN IF L.needTagName
              THEN lexJSXIdentifier([L EXCEPT !.needTagName = FALSE], "JSX_TAG")
              ELSE lexJSXIdentifier(L, "JSX_ATTR_NAME")
     ELSE lexJSXText(L)

\* The scan of lexGoCode: over host text, literals and comments skipped
\* whole, up to the first markup start or the end of the input.
\* One turn of lexGoCode's loop: over a string, rune or raw-string literal,
\* over a comment, or over one character.
goCodeStep(L) ==
  LET ch == peek(L)
  IN IF ch = chQuote THEN lexGoString(L)
     ELSE IF ch = chApos THEN lexGoRune(L)
     ELSE IF ch = chBacktick THEN lexGoRawString(L)
     ELSE IF ch = chSlash /\ peekNext(L) = chSlash THEN lexGoLineComment(L)
     ELSE IF ch = chSlash /\ peekNext(L) = chStar THEN lexGoBlockComment(L)
     ELSE advance(L)

RECURSIVE goCodeScan(_)
goCodeScan(L) ==
  IF L.pos >= Len(L.input) \/ isJSXStart(L) THEN L ELSE goCodeScan(goCodeStep(L))

\* lexGoCode: host code up to a markup start, or the markup's first token.
lexGoCode(L) ==
  LET L1 == goCodeScan(L)
  IN IF L1.pos > L.pos
       THEN Result(L1, "GO_CODE", L.pos, L.line, L.column, L.pos, L1.pos)
     ELSE IF L1.pos < Len(L1.input)
       THEN lexJSXOpen([L1 EXCEPT !.inJSX = TRUE])
     ELSE Fixed(L1, makeToken(L1, "EOF", <<>>))

\* NextToken
LexNextToken(L) ==
  IF L.pos >= Len(L.input) THEN Fixed(L, makeToken(L, "EOF", <<>>))
  ELSE IF L.inJSX THEN lexJSX(L)
  ELSE lexGoCode(L)

(***************************************************************************)
(* The parser.  A Parser value holds the struct's fields that change (lex, *)
(* tok, errors) and status, the way the run is going:                      *)
(*   "run"    parsing;                                                     *)
(*   "panic"  NextToken aborted with a run-time panic, and Parse with it;  *)
(*   "hang"   advance() got back the very token it had, from a lexer that  *)
(*            did not move: the loop that asked for it takes the same step *)
(*            on the same token again, without end.                        *)
(* Every parse method is an operator from the parser before the call to    *)
(* the parser after it and the value returned.                             *)
(***************************************************************************)
Position(offset, line, column) == [Offset |-> offset, Line |-> line, Column |-> column]

NilNode == [kind |-> "nil"]

\* The nil error.
NilError == [Line |-> 0, Column |-> 0, msg |-> <<"nil">>]

\* The zero Token of a Parser that has not read anything yet.
ZeroToken == Token("EOF", <<>>, 0, 0, 0)

\* The tokens the successive p.lex.NextToken() calls of one parse return.
\* NextToken is a function of the lexer's fields, so the sequence is fixed by
\* the source; it is listed up to the first EOF, the first call that panics
\* (ok is FALSE) or the first call that leaves the lexer as it found it:
\* every later call then returns that same token again.
RECURSIVE tokenLoop(_)
tokenNext(st, r) ==
  IF ~r.ok \/ r.tok.Type = "EOF" \/ r.lex = st.lex
    THEN Append(st.toks, [ok |-> r.ok, tok |-> r.tok])
    ELSE tokenLoop([lex |-> r.lex, toks |-> Append(st.toks, [ok |-> r.ok, tok |-> r.tok])])

tokenLoop(st) == tokenNext(st, LexNextToken(st.lex))

TokenStream(src) == tokenLoop([lex |-> NewLexer(src), toks |-> <<>>])

\* parser.New.  The lexer p.lex is held as the tokens it is going to return
\* (toks) and the number of them taken so far (i).
NewParser(src) ==
  [toks |-> TokenStream(src), i |-> 0, tok |-> ZeroToken, errors |-> <<>>,
   status |-> "run"]

\* Parser.advance (peek is never called, so hasPeek is always false).  A
\* panic of NextToken ends the parse.  Past the last listed token the lexer
\* repeats it: at EOF nothing changes, otherwise the token stream has no end
\* and Parse, which reads until EOF, never returns.
padvance(P) ==
  IF P.status # "run" THEN P
  ELSE IF P.i < Len(P.toks)
    THEN IF P.toks[P.i + 1].ok
           THEN [P EXCEPT !.i = @ + 1, !.tok = P.toks[P.i + 1].tok]
           ELSE [P EXCEPT !.status = "panic"]
  ELSE IF P.tok.Type = "EOF" THEN P
  ELSE [P EXCEPT !.status = "hang"]

\* Parser.error: file:line:col: msg, at the current token.
perror(P, msg) ==
  [P EXCEPT !.errors = Append(@, [Line |-> P.tok.Line, Column |-> P.tok.Column, msg |-> msg])]

tokenRange(P) ==
  [Start |-> Position(P.tok.Offset, P.tok.Line, P.tok.Column),
   End |-> Position(P.tok.Offset + Len(P.tok.Value), P.tok.Line,
                    P.tok.Column + Len(P.tok.Value))]

prevPosition(P) == Position(P.tok.Offset, P.tok.Line, P.tok.Column)

isClosingTag(P) ==
  P.tok.Type = "JSX_OPEN" /\ Len(P.tok.Value) = 2 /\ P.tok.Value = Bytes("</")

\* parseJSXAttribute from the token after "=".
attrValue(P, name, startRange) ==
  [p |-> IF P.tok.Type \in {"JSX_STRING", "JSX_EXPR"}
           THEN padvance(P)
           ELSE perror(P, <<"expected string or expression for attribute value, got",
                            P.tok.Type, P.tok.Value>>),
   attr |-> IF P.tok.Type = "JSX_STRING"
              THEN [kind |-> "StringAttribute", Key |-> name, Value |-> P.tok.Value,
                    Range |-> [startRange EXCEPT !.End = tokenRange(P).End]]
            ELSE IF P.tok.Type = "JSX_EXPR"
              THEN [kind |-> "ExpressionAttribute", Key |-> name,
                    Expression |-> P.tok.Value,
                    Range |-> [startRange EXCEPT !.End = tokenRange(P).End]]
            ELSE NilNode]

\* parseJSXAttribute from the token after the name.
attrAfterName(P, name, startRange) ==
  IF P.tok.Type # "JSX_EQUALS"
    THEN [p |-> P,
          attr |-> [kind |-> "ExpressionAttribute", Key |-> name,
                    Expression |-> Bytes("true"), Range |-> startRange]]
    ELSE attrValue(padvance(P), name, startRange)

\* parseJSXAttribute: one attribute, from its name.
parseJSXAttribute(P) ==
  IF P.tok.Type # "JSX_ATTR_NAME" THEN [p |-> P, attr |-> NilNode]
  ELSE attrAfterName(padvance(P), P.tok.Value, tokenRange(P))

RECURSIVE parseJSXAttributes(_, _)

\* The JSX_ATTR_NAME case of parseJSXAttributes, a being what
\* parseJSXAttribute returned.
attrsAppend(a, attrs) ==
  parseJSXAttributes(a.p, IF a.attr # NilNode THEN Append(attrs, a.attr) ELSE attrs)

\* parseJSXAttributes: the loop, attrs being the attributes read so far.
parseJSXAttributes(P, attrs) ==
  IF P.status # "run" \/ P.tok.Type \in {"JSX_CLOSE", "JSX_SLASH", "EOF"}
    THEN [p |-> P, attrs |-> attrs]
  ELSE IF P.tok.Type = "JSX_ATTR_NAME" THEN attrsAppend(parseJSXAttribute(P), attrs)
  ELSE parseJSXAttributes(
         padvance(IF P.tok.Type = "JSX_EXPR" THEN P
                  ELSE perror(P, <<"unexpected token in attributes",
                                   P.tok.Type, P.tok.Value>>)),
         IF /\ P.tok.Type = "JSX_EXPR"
            /\ Len(P.tok.Value) > 3
            /\ SubSeq(P.tok.Value, 1, 3) = Bytes("...")
           THEN Append(attrs, [kind |-> "SpreadAttribute",
                               Expression |-> SubSeq(P.tok.Value, 4, Len(P.tok.Value)),
                               Range |-> tokenRange(P)])
           ELSE attrs)

RECURSIVE parseJSXElement(_)
RECURSIVE parseJSXChildren(_, _)

\* The JSX_OPEN and JSX_FRAG_OPEN cases of parseJSXChildren, e being what
\* parseJSXElement returned and kind the type the case asserts.
childrenAppend(e, kind, children) ==
  parseJSXChildren(e.p, IF e.node # NilNode /\ e.node.kind = kind
                          THEN Append(children, e.node) ELSE children)

\* parseJSXChildren: the loop, children being the children read so far.
parseJSXChildren(P, children) ==
  IF P.status # "run" \/ P.tok.Type \in {"EOF", "JSX_FRAG_CLOSE"} \/ isClosingTag(P)
    THEN [p |-> P, children |-> children]
  ELSE IF P.tok.Type = "JSX_OPEN"
    THEN childrenAppend(parseJSXElement(P), "JSXElement", children)
  ELSE IF P.tok.Type = "JSX_FRAG_OPEN"
    THEN childrenAppend(parseJSXElement(P), "JSXFragment", children)
  ELSE parseJSXChildren(
         padvance(IF P.tok.Type \in {"JSX_TEXT", "JSX_EXPR"} THEN P
                  ELSE perror(P, <<"unexpected token in children",
                                   P.tok.Type, P.tok.Value>>)),
         IF P.tok.Type = "JSX_TEXT"
           THEN Append(children, [kind |-> "JSXText", Value |-> P.tok.Value,
                                  Range |-> tokenRange(P)])
         ELSE IF P.tok.Type = "JSX_EXPR"
           THEN Append(children, [kind |-> "JSXExpression", Expression |-> P.tok.Value,
                                  Range |-> tokenRange(P)])
         ELSE children)

\* The end of parseJSXFragment: frag.Range.End and the return.
fragmentEnd(P, children, startRange) ==
  [p |-> P,
   node |-> [kind |-> "JSXFragment", Children |-> children,
             Range |-> [startRange EXCEPT !.End = prevPosition(P)]]]

\* parseJSXFragment from the token after the children c.
fragmentClose(c, startRange) ==
  fragmentEnd(IF c.p.tok.Type = "JSX_FRAG_CLOSE" THEN padvance(c.p) ELSE c.p,
              c.children, startRange)

\* parseJSXFragment
parseJSXFragment(P, startRange) ==
  fragmentClose(parseJSXChildren(padvance(P), <<>>), startRange)

\* The end of parseJSXElement: elem.Range.End and the return.
elementEnd(P, elem) ==
  [p |-> P, node |-> [elem EXCEPT !.Range.End = prevPosition(P)]]

\* closingTagName without the comparison of the two names.
closingTagNameUnchecked(P, tagName) ==
  IF P.tok.Type = "JSX_TAG" THEN padvance(P) ELSE P

\* The closing tag of parseJSXElement from the token after "</".
closingTagName(P, tagName) ==
  IF P.tok.Type = "JSX_TAG"
    THEN padvance(IF P.tok.Value # tagName
                    THEN perror(P, <<"mismatched closing tag: expected, got",
                                     tagName, P.tok.Value>>)
                    ELSE P)
    ELSE P

\* The closing tag of parseJSXElement from the token after its name.
closingTagEnd(P) == IF P.tok.Type = "JSX_CLOSE" THEN padvance(P) ELSE P

\* The closing tag of parseJSXElement.
parseClosingTag(P, tagName) ==
  IF P.tok.Type = "JSX_OPEN"
    THEN closingTagEnd(closingTagName(padvance(P), tagName))
    ELSE P

\* parseJSXElement from the token after the children c.
elementChildren(c, elem, tagName) ==
  elementEnd(parseClosingTag(c.p, tagName), [elem EXCEPT !.Children = c.children])

\* The self-closing case of parseJSXElement from the token after "/".
selfClosingEnd(P) ==
  IF P.tok.Type # "JSX_CLOSE"
    THEN perror(P, <<"expected '>' after '/', got", P.tok.Type, P.tok.Value>>)
    ELSE padvance(P)

\* elementAfterAttributes marking the element with children self-closing too.
elementAfterAttributesAllSelfClosing(P, elem, tagName) ==
  IF P.tok.Type = "JSX_SLASH"
    THEN elementEnd(selfClosingEnd(padvance(P)), [elem EXCEPT !.SelfClosing = TRUE])
  ELSE IF P.tok.Type # "JSX_CLOSE"
    THEN [p |-> perror(P, <<"expected '>' or '/>', got", P.tok.Type, P.tok.Value>>),
          node |-> elem]
  ELSE elementChildren(parseJSXChildren(padvance(P), <<>>),
                       [elem EXCEPT !.SelfClosing = TRUE], tagName)

\* parseJSXElement from the token after the attributes.
elementAfterAttributes(P, elem, tagName) ==
  IF P.tok.Type = "JSX_SLASH"
    THEN elementEnd(selfClosingEnd(padvance(P)), [elem EXCEPT !.SelfClosing = TRUE])
  ELSE IF P.tok.Type # "JSX_CLOSE"
    THEN [p |-> perror(P, <<"expected '>' or '/>', got", P.tok.Type, P.tok.Value>>),
          node |-> elem]
  ELSE elementChildren(parseJSXChildren(padvance(P), <<>>), elem, tagName)

\* parseJSXElement from the attributes a on.
elementAttributes(a, tagName, startRange) ==
  elementAfterAttributes(a.p,
                         [kind |-> "JSXElement", Tag |-> tagName,
                          Attributes |-> a.attrs, Children |-> <<>>,
                          SelfClosing |-> FALSE, Range |-> startRange],
                         tagName)

\* parseJSXElement from the token after "<".
elementAfterOpen(P, startRange) ==
  IF P.tok.Type # "JSX_TAG"
    THEN [p |-> perror(P, <<"expected tag name, got", P.tok.Type, P.tok.Value>>),
          node |-> NilNode]
    ELSE elementAttributes(parseJSXAttributes(padvance(P), <<>>), P.tok.Value, startRange)

\* parseJSXElement: an element or a fragment, from its "<" or "<>".
parseJSXElement(P) ==
  IF P.tok.Type = "JSX_FRAG_OPEN" THEN parseJSXFragment(P, tokenRange(P))
  ELSE IF P.tok.Type # "JSX_OPEN"
    THEN [p |-> perror(P, <<"expected '<', got", P.tok.Type, P.tok.Value>>), node |-> NilNode]
  ELSE elementAfterOpen(padvance(P), tokenRange(P))

\* parseGoCode
parseGoCode(P) ==
  [p |-> padvance(P),
   node |-> [kind |-> "GoCode", Value |-> P.tok.Value, Range |-> tokenRange(P)]]

\* parseNode: one top-level node.
parseNode(P) ==
  IF P.tok.Type = "GO_CODE" THEN parseGoCode(P)
  ELSE IF P.tok.Type \in {"JSX_OPEN", "JSX_FRAG_OPEN"} THEN parseJSXElement(P)
  ELSE IF P.tok.Type = "EOF" THEN [p |-> P, node |-> NilNode]
  ELSE [p |-> padvance(perror(P, <<"unexpected token", P.tok.Type, P.tok.Value>>)),
        node |-> NilNode]

RECURSIVE parseLoop(_, _)

\* The body of the loop of Parse, n being what parseNode returned.
nodesAppend(n, nodes) ==
  parseLoop(n.p, IF n.node # NilNode THEN Append(nodes, n.node) ELSE nodes)

\* The loop of Parse, nodes being file.Nodes so far.
parseLoop(P, nodes) ==
  IF P.status # "run" \/ P.tok.Type = "EOF" THEN [p |-> P, nodes |-> nodes]
  ELSE nodesAppend(parseNode(P), nodes)

\* What Parse returns, r being the parser and the nodes at the end of its loop.
parseResult(r) ==
  [status |-> IF r.p.status = "run" THEN "ok" ELSE r.p.status,
   Nodes |-> r.nodes,
   errors |-> r.p.errors,
   err |-> IF Len(r.p.errors) > 0 THEN r.p.errors[1] ELSE NilError]

\* Parse(filename, src): status "ok" with the file and the errors recorded
\* (Parse's error result is the first of them, nil when there is none), or
\* "panic" / "hang" when the call does not return.
Parse(src) == parseResult(parseLoop(padvance(NewParser(src)), <<>>))

(***************************************************************************)
(* The Go library functions the generator and the source map call.         *)
(***************************************************************************)
\* uint32(n).  TLC's integers are 32 bits wide, so no value here
\* reaches 2^32 from below; a negative n wraps to n + 2^32.
U32(n) == IF n >= 0 THEN n ELSE n + 65536 * 65536

HasPrefix(s, prefix) ==
  Len(s) >= Len(prefix) /\ SubSeq(s, 1, Len(prefix)) = prefix

HasSuffix(s, suffix) ==
  Len(s) >= Len(suffix) /\ SubSeq(s, Len(s) - Len(suffix) + 1, Len(s)) = suffix

\* strings.Index(s, sub): the offset of the first occurrence, or -1.
Index(s, sub) ==
  LET hits == {i \in 0..(Len(s) - Len(sub)) : SubSeq(s, i + 1, i + Len(sub)) = sub}
  IN IF Len(sub) > Len(s) \/ hits = {} THEN -1
     ELSE CHOOSE i \in hits : \A j \in hits : i <= j

Contains(s, sub) == Index(s, sub) >= 0

TrimPrefix(s, prefix) ==
  IF HasPrefix(s, prefix) THEN SubSeq(s, Len(prefix) + 1, Len(s)) ELSE s

TrimSuffix(s, suffix) ==
  IF HasSuffix(s, suffix) THEN SubSeq(s, 1, Len(s) - Len(suffix)) ELSE s

\* unicode.IsSpace, for ASCII and Latin-1: \t \n \v \f \r, space, U+0085, U+00A0.
IsSpace(r) == r \in {9, 10, 11, 12, 13, 32, 133, 160}

RECURSIVE TrimLeft(_)
TrimLeft(s) ==
  IF s # <<>> /\ IsSpace(DecodeRune(s, 0).r)
    THEN TrimLeft(SubSeq(s, DecodeRune(s, 0).size + 1, Len(s)))
    ELSE s

RECURSIVE TrimRight(_)
TrimRight(s) ==
  IF s = <<>> THEN s
  ELSE IF s[Len(s)] < 128
    THEN IF IsSpace(s[Len(s)]) THEN TrimRight(SubSeq(s, 1, Len(s) - 1)) ELSE s
  ELSE IF Len(s) >= 2 /\ s[Len(s) - 1] = 194 /\ s[Len(s)] \in {133, 160}
    THEN TrimRight(SubSeq(s, 1, Len(s) - 2))
  ELSE s

\* strings.TrimSpace
TrimSpace(s) == TrimRight(TrimLeft(s))

\* strings.Split(s, "\n")
RECURSIVE SplitLines(_)
SplitLines(s) ==
  LET i == Index(s, <<chNewline>>)
  IN IF i < 0 THEN <<s>>
     ELSE <<SubSeq(s, 1, i)>> \o SplitLines(SubSeq(s, i + 2, Len(s)))

\* utf8.EncodeRune, for the code points below U+10000.
EncodeRune(r) ==
  IF r < 128 THEN <<r>>
  ELSE IF r < 2048 THEN <<192 + (r \div 64), 128 + (r % 64)>>
  ELSE <<224 + (r \div 4096), 128 + ((r \div 64) % 64), 128 + (r % 64)>>

\* unicode.ToUpper, exact for ASCII and Latin-1; other code points are left
\* as they are (none of the alphabets holds a lower-case letter above U+00FF).
ToUpper(r) ==
  IF r >= 97 /\ r <= 122 THEN r - 32
  ELSE IF r >= 224 /\ r <= 254 /\ r # 247 THEN r - 32
  ELSE IF r = 255 THEN 376
  ELSE IF r = 181 THEN 924
  ELSE r

HexDigit(n) == Ord(SubSeq("0123456789abcdef", n + 1, n + 1))

\* strconv.IsPrint, exact for ASCII and Latin-1; above, the letters listed
\* in IsLetter.
IsPrint(r) ==
  \/ (r >= 32 /\ r <= 126)
  \/ (r >= 161 /\ r <= 255 /\ r # 173)
  \/ (r >= 256 /\ r # RuneError /\ IsLetter(r))

\* The text strconv.Quote writes for the character at offset i of s.
QuoteRune(s, i) ==
  LET d == DecodeRune(s, i)
      b == ByteAt(s, i)
  IN IF d.r = RuneError /\ d.size = 1
       THEN <<chBackslash, Ord("x"), HexDigit(b \div 16), HexDigit(b % 16)>>
     ELSE IF d.r = chQuote \/ d.r = chBackslash THEN <<chBackslash, d.r>>
     ELSE IF IsPrint(d.r) THEN SubSeq(s, i + 1, i + d.size)
     ELSE IF d.r = 7 THEN Bytes("\\a")
     ELSE IF d.r = 8 THEN Bytes("\\b")
     ELSE IF d.r = 12 THEN Bytes("\\f")
     ELSE IF d.r = 10 THEN Bytes("\\n")
     ELSE IF d.r = 13 THEN Bytes("\\r")
     ELSE IF d.r = 9 THEN Bytes("\\t")
     ELSE IF d.r = 11 THEN Bytes("\\v")
     ELSE IF d.r < 128
       THEN <<chBackslash, Ord("x"), HexDigit(d.r \div 16), HexDigit(d.r % 16)>>
     ELSE <<chBackslash, Ord("u"), HexDigit((d.r \div 4096) % 16), HexDigit((d.r \div 256) % 16),
            HexDigit((d.r \div 16) % 16), HexDigit(d.r % 16)>>

RECURSIVE QuoteFrom(_, _)
QuoteFrom(s, i) ==
  IF i >= Len(s) THEN <<>>
  ELSE QuoteRune(s, i) \o QuoteFrom(s, i + DecodeRune(s, i).size)

\* fmt.Sprintf("%q", s)
Quote(s) == <<chQuote>> \o QuoteFrom(s, 0) \o <<chQuote>>

(***************************************************************************)
(* The source map.  The nested Go maps map[line]map[column]Position are    *)
(* functions on <<line, column>> pairs: a line has an inner map exactly    *)
(* when some pair of that line is in the domain.                           *)
(***************************************************************************)
NewPosition(index, line, col) == [Index |-> index, Line |-> line, Column |-> col]

ZeroPosition == NewPosition(0, 0, 0)

\* m[k] = v
MapPut(m, k, v) == (k :> v) @@ m

EmptyMap == <<>>

NewSourceMap == [SourceToTarget |-> EmptyMap, TargetToSource |-> EmptyMap]

HasLine(m, line) == \E k \in DOMAIN m : k[1] = line

\* AddMapping with the line and the column of the target exchanged in the
\* forward entry.
AddMappingSwapped(sm0, srcLine, srcCol, tgtLine, tgtCol) ==
  [SourceToTarget |-> MapPut(sm0.SourceToTarget, <<srcLine, srcCol>>,
                             NewPosition(0, tgtCol, tgtLine)),
   TargetToSource |-> MapPut(sm0.TargetToSource, <<tgtLine, tgtCol>>,
                             NewPosition(0, srcLine, srcCol))]

AddMapping(sm, srcLine, srcCol, tgtLine, tgtCol) ==
  [SourceToTarget |-> MapPut(sm.SourceToTarget, <<srcLine, srcCol>>,
                             NewPosition(0, tgtLine, tgtCol)),
   TargetToSource |-> MapPut(sm.TargetToSource, <<tgtLine, tgtCol>>,
                             NewPosition(0, srcLine, srcCol))]

\* rlen of AddExpression for the rune at offset i: utf8.RuneLen, or 1 when
\* that is negative.
runeWidth(line, i) ==
  LET rl == RuneLen(DecodeRune(line, i).r) IN IF rl < 0 THEN 1 ELSE rl

\* The inner loop of AddExpression over one line, from byte offset i.
\* for range yields RuneError for a byte that is no valid encoding.
\* st is [sm, i, srcCol, tgtCol]: the map and the loop variables.
RECURSIVE addExprRunes(_, _, _, _)
addExprRunes(st, line, srcLine, tgtLine) ==
  IF st.i >= Len(line)
    THEN AddMapping(st.sm, srcLine, st.srcCol, tgtLine, st.tgtCol)
    ELSE addExprRunes([sm |-> AddMapping(st.sm, srcLine, st.srcCol, tgtLine, st.tgtCol),
                       i |-> st.i + DecodeRune(line, st.i).size,
                       srcCol |-> U32(st.srcCol + runeWidth(line, st.i)),
                       tgtCol |-> U32(st.tgtCol + runeWidth(line, st.i))],
                      line, srcLine, tgtLine)

RECURSIVE addExprLines(_, _, _, _, _, _, _)
addExprLines(sm, lines, lineIndex, srcLine, srcCol, tgtLine, tgtCol) ==
  IF lineIndex > Len(lines) THEN sm
  ELSE LET sl == IF lineIndex > 1 THEN U32(srcLine + 1) ELSE srcLine
           tl == IF lineIndex > 1 THEN U32(tgtLine + 1) ELSE tgtLine
           sc == IF lineIndex > 1 THEN 0 ELSE srcCol
           tc == IF lineIndex > 1 THEN 0 ELSE tgtCol
       IN addExprLines(addExprRunes([sm |-> sm, i |-> 0, srcCol |-> sc, tgtCol |-> tc],
                                    lines[lineIndex], sl, tl),
                       lines, lineIndex + 1, sl, sc, tl, tc)

AddExpression(sm, value, srcStart, tgtStart) ==
  addExprLines(sm, SplitLines(value), 1, srcStart.Line, srcStart.Column,
               tgtStart.Line, tgtStart.Column)

\* What the loop of FindTargetLine and FindSourceLine can return for the
\* line of the map m: `for _, pos := range lineMap { return pos.Line, true }`
\* returns at the first entry the iteration yields, and the iteration order
\* of a Go map is not specified, so any entry of the line can be the first.
FindLine(m, line) ==
  IF ~HasLine(m, line) THEN {[line |-> 0, ok |-> FALSE]}
  ELSE {[line |-> m[k].Line, ok |-> TRUE] : k \in {x \in DOMAIN m : x[1] = line}}

FindTargetLine(sm, srcLine) == FindLine(sm.SourceToTarget, srcLine)

FindSourceLine(sm, tgtLine) == FindLine(sm.TargetToSource, tgtLine)

NotFound == [pos |-> ZeroPosition, ok |-> FALSE]

\* The columns the backward loop of TargetPositionFromSource visits:
\* for c := col; c > 0 && col-c < 5; c--
BackwardCols(col) == {c \in 0..col : c > 0 /\ col - c < 5}

TargetPositionFromSource(sm, line, col) ==
  LET m == sm.SourceToTarget
      hits == {c \in BackwardCols(col) : <<line, c>> \in DOMAIN m}
  IN IF ~HasLine(m, line) THEN NotFound
     ELSE IF <<line, col>> \in DOMAIN m THEN [pos |-> m[<<line, col>>], ok |-> TRUE]
     ELSE IF hits # {}
       THEN LET c == CHOOSE x \in hits : \A y \in hits : y <= x
                pos == m[<<line, c>>]
            IN [pos |-> [Index |-> 0, Line |-> pos.Line,
                         Column |-> U32(pos.Column + (col - c))],
                ok |-> TRUE]
     ELSE NotFound

\* The highest-column entry of the nearest earlier line that has entries.
PrevLineBest(m, line) ==
  LET ls == {l \in 0..(line - 1) : HasLine(m, l)}
  IN IF ls = {} THEN NotFound
     ELSE LET pl == CHOOSE l \in ls : \A y \in ls : y <= l
              cs == {k[2] : k \in {x \in DOMAIN m : x[1] = pl}}
              bc == CHOOSE c \in cs : \A y \in cs : y <= c
          IN [pos |-> m[<<pl, bc>>], ok |-> TRUE]

\* SourcePositionFromTarget without its scan of the previous lines.
SourcePositionFromTargetSameLine(sm0, line, col) ==
  LET hits == {c \in 0..col : <<line, c>> \in DOMAIN sm0.TargetToSource}
  IN IF hits # {}
       THEN [pos |-> sm0.TargetToSource[<<line, CHOOSE x \in hits : \A y \in hits : y <= x>>],
             ok |-> TRUE]
       ELSE NotFound

SourcePositionFromTarget(sm, line, col) ==
  LET m == sm.TargetToSource
      hits == {c \in 0..col : <<line, c>> \in DOMAIN m}
  IN IF HasLine(m, line) /\ hits # {}
       THEN [pos |-> m[<<line, CHOOSE x \in hits : \A y \in hits : y <= x>>],
             ok |-> TRUE]
       ELSE PrevLineBest(m, line)

(***************************************************************************)
(* The generator.  A Generator value carries status "run" until a nested   *)
(* parse panics or transformExpressionJSX stops making progress.           *)
(***************************************************************************)
\* Options.RuntimePackage left empty.
DefaultRuntimePkg == Bytes("github.com/germtb/gox")

\* generator.New
New(runtimePkg) ==
  [buf |-> <<>>, indent |-> 0, sourceMap |-> NewSourceMap,
   runtimePkg |-> IF runtimePkg # <<>> THEN runtimePkg ELSE DefaultRuntimePkg,
   needsImport |-> FALSE, outLine |-> 0, outCol |-> 0, status |-> "run"]

\* The position tracking of write: one step per rune of s.
\* c is [i, outLine, outCol].
RECURSIVE writeCursor(_, _)
writeCursor(s, c) ==
  IF c.i >= Len(s) THEN c
  ELSE writeCursor(s, [i |-> c.i + DecodeRune(s, c.i).size,
                       outLine |-> IF ByteAt(s, c.i) = chNewline
                                     THEN U32(c.outLine + 1) ELSE c.outLine,
                       outCol |-> IF ByteAt(s, c.i) = chNewline
                                    THEN 0 ELSE U32(c.outCol + 1)])

\* write, c being the position its loop over s ends on.
written(g, s, c) ==
  [g EXCEPT !.buf = @ \o s, !.outLine = c.outLine, !.outCol = c.outCol]

write(g, s) ==
  written(g, s, writeCursor(s, [i |-> 0, outLine |-> g.outLine, outCol |-> g.outCol]))

writeWithMapping(g, s, srcLine, srcCol) ==
  write(IF srcLine > 0 /\ srcCol > 0
          THEN [g EXCEPT !.sourceMap =
                  AddExpression(@, s, NewPosition(0, U32(srcLine - 1), U32(srcCol - 1)),
                                NewPosition(0, g.outLine, g.outCol))]
          ELSE g,
        s)

RECURSIVE writeTabs(_, _)
writeTabs(g, n) == IF n <= 0 THEN g ELSE writeTabs(write(g, <<chTab>>), n - 1)

writeIndent(g) == writeTabs(g, g.indent)

\* []rune(s), each invalid byte becoming RuneError.
RECURSIVE Runes(_, _)
Runes(s, i) ==
  IF i >= Len(s) THEN <<>>
  ELSE <<DecodeRune(s, i).r>> \o Runes(s, i + DecodeRune(s, i).size)

\* string(r) of a rune slice.
RECURSIVE EncodeRunes(_)
EncodeRunes(rs) ==
  IF rs = <<>> THEN <<>> ELSE EncodeRune(Head(rs)) \o EncodeRunes(Tail(rs))

\* capitalize from r := []rune(s) on.
capitalizeRunes(r) == EncodeRunes(<<ToUpper(r[1])>> \o Tail(r))

capitalize(s) == IF s = <<>> THEN s ELSE capitalizeRunes(Runes(s, 0))

\* isCommentOnly, the /* */ case, from inner on.
blockCommentOnly(inner) == TrimSpace(inner) = <<>> \/ ~Contains(inner, Bytes("*/"))

\* isCommentOnly after s = strings.TrimSpace(s).
trimmedCommentOnly(s) ==
  IF s = <<>> THEN TRUE
  ELSE IF HasPrefix(s, Bytes("/*")) /\ HasSuffix(s, Bytes("*/"))
    THEN blockCommentOnly(TrimSuffix(TrimPrefix(s, Bytes("/*")), Bytes("*/")))
  ELSE HasPrefix(s, Bytes("//"))

isCommentOnly(s) == trimmedCommentOnly(TrimSpace(s))

\* wrapMapLiteral after expr = strings.TrimSpace(expr).
wrapTrimmed(expr) ==
  IF Len(expr) < 2 THEN expr
  ELSE IF expr[1] = chLBrace /\ expr[Len(expr)] = chRBrace
    THEN Bytes("map[string]any") \o expr
  ELSE expr

wrapMapLiteral(expr) == wrapTrimmed(TrimSpace(expr))

IsSpread(a) == a.kind = "SpreadAttribute"

hasSpread(attrs) == \E i \in 1..Len(attrs) : IsSpread(attrs[i])

\* typedField without capitalize.
typedFieldKeyAsWritten(a) ==
  IF a.kind = "StringAttribute"
    THEN a.Key \o Bytes(": ") \o Quote(a.Value)
  ELSE IF a.kind = "ExpressionAttribute"
    THEN a.Key \o Bytes(": ") \o a.Expression
  ELSE <<>>

\* The text one attribute contributes to a typed props struct literal.
typedField(a) ==
  IF a.kind = "StringAttribute"
    THEN capitalize(a.Key) \o Bytes(": ") \o Quote(a.Value)
  ELSE IF a.kind = "ExpressionAttribute"
    THEN capitalize(a.Key) \o Bytes(": ") \o a.Expression
  ELSE <<>>

\* The text one attribute contributes to a gox.Props map literal.
propsEntry(a) ==
  IF a.kind = "StringAttribute"
    THEN Quote(a.Key) \o Bytes(": ") \o Quote(a.Value)
  ELSE IF a.kind = "ExpressionAttribute"
    THEN Quote(a.Key) \o Bytes(": ") \o wrapMapLiteral(a.Expression)
  ELSE <<>>

\* The switch of the props writers: a string or expression attribute is
\* written, typed as a struct field or else as a map entry; any other
\* attribute writes nothing.
writeAttr(g, a, typed) ==
  IF IsSpread(a) THEN g
  ELSE write(g, IF typed THEN typedField(a) ELSE propsEntry(a))

\* The loop "if !first { write(", ") }; first = false; switch ..." that the
\* four props writers share.
RECURSIVE writeAttrs(_, _, _, _)
writeAttrs(g, attrs, i, typed) ==
  IF i > Len(attrs) THEN g
  ELSE writeAttrs(writeAttr(IF i > 1 THEN write(g, Bytes(", ")) ELSE g, attrs[i], typed),
                  attrs, i + 1, typed)

generateTypedPropsWithSpread(g, attrs, propsType) ==
  write(writeAttrs(write(g, propsType \o <<chLBrace>>),
                   SelectSeq(attrs, LAMBDA a : ~IsSpread(a)), 1, TRUE),
        <<chRBrace>>)

generateTypedProps(g, attrs, propsType) ==
  IF Len(attrs) = 0 THEN write(g, propsType \o Bytes("{}"))
  ELSE IF hasSpread(attrs) THEN generateTypedPropsWithSpread(g, attrs, propsType)
  ELSE write(writeAttrs(write(g, propsType \o <<chLBrace>>), attrs, 1, TRUE),
             <<chRBrace>>)

\* flushRegularBatch of generatePropsWithSpread; st is [g, first, batch].
flushRegularBatch(st) ==
  IF Len(st.batch) = 0 THEN st
  ELSE [g |-> write(writeAttrs(write(IF ~st.first THEN write(st.g, Bytes(", ")) ELSE st.g,
                                     Bytes("gox.Props{")),
                               st.batch, 1, FALSE),
                    <<chRBrace>>),
        first |-> FALSE, batch |-> <<>>]

\* writeSpread writing nothing for the spread.
writeSpreadDropped(f, expr) == f

\* The SpreadAttribute case of generatePropsWithSpread's loop, f being the
\* state flushRegularBatch left.
writeSpread(f, expr) ==
  [g |-> write(IF ~f.first THEN write(f.g, Bytes(", ")) ELSE f.g, expr),
   first |-> FALSE, batch |-> f.batch]

RECURSIVE spreadLoop(_, _, _)
spreadLoop(st, attrs, i) ==
  IF i > Len(attrs) THEN st
  ELSE IF IsSpread(attrs[i])
    THEN spreadLoop(writeSpread(flushRegularBatch(st), attrs[i].Expression), attrs, i + 1)
    ELSE spreadLoop([st EXCEPT !.batch = Append(@, attrs[i])], attrs, i + 1)

generatePropsWithSpread(g, attrs) ==
  write(flushRegularBatch(spreadLoop([g |-> write(g, Bytes("gox.MergeProps(")),
                                      first |-> TRUE, batch |-> <<>>],
                                     attrs, 1)).g,
        Bytes(")"))

generateProps(g, attrs) ==
  IF Len(attrs) = 0 THEN write(g, Bytes("nil"))
  ELSE IF hasSpread(attrs) THEN generatePropsWithSpread(g, attrs)
  ELSE write(writeAttrs(write(g, Bytes("gox.Props{")), attrs, 1, FALSE), <<chRBrace>>)

\* The test of transformExpressionJSX's search at offset i: a '<' followed
\* by an ASCII letter or by '>'.
isJSXStartAt(result, i, next) ==
  /\ ByteAt(result, i) = chLT
  /\ \/ (next >= 97 /\ next <= 122)
     \/ (next >= 65 /\ next <= 90)
     \/ next = chGT

\* The least element of a non-empty set of offsets; -1 for the empty set.
firstOf(starts) ==
  IF starts = {} THEN -1 ELSE CHOOSE i \in starts : \A j \in starts : i <= j

\* The first offset transformExpressionJSX takes for markup; -1 when there
\* is none.
findJSXStart(result) ==
  firstOf({i \in 0..(Len(result) - 2) : isJSXStartAt(result, i, ByteAt(result, i + 1))})

\* findJSXEnd, closing tag: the offset of the next '>' from i, or len(s).
RECURSIVE scanToGT(_, _)
scanToGT(s, i) ==
  IF i < Len(s) /\ ByteAt(s, i) # chGT THEN scanToGT(s, i + 1) ELSE i

\* findJSXEnd, opening tag: scan to "/>" (selfClosing) or to '>'.
RECURSIVE scanOpenTag(_, _)
scanOpenTag(s, i) ==
  IF i >= Len(s) THEN [i |-> i, selfClosing |-> FALSE]
  ELSE IF ByteAt(s, i) = chSlash /\ i + 1 < Len(s) /\ ByteAt(s, i + 1) = chGT
    THEN [i |-> i + 2, selfClosing |-> TRUE]
  ELSE IF ByteAt(s, i) = chGT THEN [i |-> i + 1, selfClosing |-> FALSE]
  ELSE scanOpenTag(s, i + 1)

RECURSIVE findJSXEndLoop(_, _, _)

\* findJSXEnd after a closing tag's scan stopped at j (depth not yet lowered).
afterClosingTag(s, j, depth) ==
  IF depth - 1 = 0 THEN j + 1 ELSE findJSXEndLoop(s, j, depth - 1)

\* findJSXEnd after an opening tag's scan t (depth not yet raised).
afterOpeningTag(s, t, depth) ==
  IF t.selfClosing
    THEN IF depth = 0 THEN t.i ELSE findJSXEndLoop(s, t.i, depth)
    ELSE findJSXEndLoop(s, t.i, depth + 1)

findJSXEndLoop(s, i, depth) ==
  IF i >= Len(s) THEN -1
  ELSE IF ByteAt(s, i) # chLT THEN findJSXEndLoop(s, i + 1, depth)
  ELSE IF i + 1 < Len(s) /\ ByteAt(s, i + 1) = chSlash
    THEN afterClosingTag(s, scanToGT(s, i), depth)
  ELSE IF i + 1 < Len(s) /\ ByteAt(s, i + 1) = chGT
    THEN findJSXEndLoop(s, i + 2, depth + 1)
  ELSE afterOpeningTag(s, scanOpenTag(s, i), depth)

findJSXEnd(s, start) == findJSXEndLoop(s, start, 0)

\* expr == "" || isCommentOnly(expr)
emptyOrComment(expr) == expr = <<>> \/ isCommentOnly(expr)

\* A child that generateChildren and generateJSXFragment skip.
skippedChild(child) ==
  \/ child.kind = "JSXText" /\ TrimSpace(child.Value) = <<>>
  \/ child.kind = "JSXExpression" /\ emptyOrComment(TrimSpace(child.Expression))

RECURSIVE generateNode(_, _)
RECURSIVE generateNodes(_, _, _)
RECURSIVE generateJSXElement(_, _)
RECURSIVE generateJSXFragment(_, _)
RECURSIVE generateChildren(_, _, _)
RECURSIVE fragmentChildren(_, _, _, _)
RECURSIVE generateJSXChild(_, _)
RECURSIVE transformLoop(_, _)
RECURSIVE transformJSXString(_, _)

\* The AddMapping call that opens generateJSXElement and generateJSXFragment.
mapNodeStart(g, node) ==
  IF node.Range.Start.Line > 0
    THEN [g EXCEPT !.sourceMap =
            AddMapping(@, U32(node.Range.Start.Line - 1), U32(node.Range.Start.Column - 1),
                       g.outLine, g.outCol)]
    ELSE g

generateTypedComponent(g, elem) ==
  write(generateChildren(generateTypedProps(write(write(g, elem.Tag), Bytes("(")),
                                            elem.Attributes,
                                            elem.Tag \o Bytes("Props")),
                         elem.Children, 1),
        Bytes(")"))

generateIntrinsicElement(g, elem) ==
  write(generateChildren(
          generateProps(write(write(write(g, Bytes("gox.Element(")), Quote(elem.Tag)),
                              Bytes(", ")),
                        elem.Attributes),
          elem.Children, 1),
        Bytes(")"))

\* unicode.IsUpper(rune(elem.Tag[0])): the first BYTE of the tag, as a rune.
isComponent(elem) == Len(elem.Tag) > 0 /\ IsUpper(ByteAt(elem.Tag, 0))

\* generateJSXElement after the AddMapping call.
generateElementCall(g, elem) ==
  IF isComponent(elem)
    THEN generateTypedComponent(g, elem)
    ELSE generateIntrinsicElement(g, elem)

generateJSXElement(g, elem) == generateElementCall(mapNodeStart(g, elem), elem)

generateChildren(g, children, i) ==
  IF i > Len(children) THEN g
  ELSE IF skippedChild(children[i]) THEN generateChildren(g, children, i + 1)
  ELSE generateChildren(
         generateJSXChild(writeIndent(write(g, <<Ord(","), chNewline>>)), children[i]),
         children, i + 1)

fragmentChildren(g, children, i, first) ==
  IF i > Len(children) THEN g
  ELSE IF skippedChild(children[i]) THEN fragmentChildren(g, children, i + 1, first)
  ELSE fragmentChildren(
         generateJSXChild(IF ~first THEN writeIndent(write(g, <<Ord(","), chNewline>>))
                          ELSE g,
                          children[i]),
         children, i + 1, FALSE)

generateJSXFragment(g, frag) ==
  write(fragmentChildren(write(mapNodeStart(g, frag), Bytes("gox.Fragment(")),
                         frag.Children, 1, TRUE),
        Bytes(")"))

\* What transformJSXString returns from gen, the generator it ran.
generatedText(gen) == [text |-> gen.buf, status |-> gen.status]

\* transformJSXString after parser.Parse returned file.
transformParsed(runtimePkg, jsx, file) ==
  IF file.status # "ok" THEN [text |-> jsx, status |-> file.status]
  ELSE IF file.errors # <<>> \/ Len(file.Nodes) = 0
    THEN [text |-> jsx, status |-> "run"]
  ELSE generatedText(generateNodes(New(runtimePkg), file.Nodes, 1))

\* transformJSXString: [text, status].
transformJSXString(runtimePkg, jsx) == transformParsed(runtimePkg, jsx, Parse(jsx))

\* transformExpressionJSX's assignment to result and the next turn of its
\* loop.  A turn that leaves result as it was is repeated for ever ("hang").
transformNext(runtimePkg, result, next) ==
  IF next = result THEN [text |-> result, status |-> "hang"]
  ELSE transformLoop(runtimePkg, next)

\* transformExpressionJSX after transformJSXString returned t.
transformSplice(runtimePkg, result, jsxStart, jsxEnd, t) ==
  IF t.status # "run" THEN [text |-> result, status |-> t.status]
  ELSE transformNext(runtimePkg, result,
                     Slice(result, 0, jsxStart) \o t.text
                       \o Slice(result, jsxEnd, Len(result)))

\* transformExpressionJSX from jsxEnd on.  A jsxEnd past the end of result
\* makes result[jsxStart:jsxEnd] panic.
transformAt(runtimePkg, result, jsxStart, jsxEnd) ==
  IF jsxEnd = -1 THEN [text |-> result, status |-> "run"]
  ELSE IF ~SliceOK(result, jsxStart, jsxEnd) THEN [text |-> result, status |-> "panic"]
  ELSE transformSplice(runtimePkg, result, jsxStart, jsxEnd,
                       transformJSXString(runtimePkg, Slice(result, jsxStart, jsxEnd)))

\* transformExpressionJSX from jsxStart on.
transformFrom(runtimePkg, result, jsxStart) ==
  IF jsxStart = -1 THEN [text |-> result, status |-> "run"]
  ELSE transformAt(runtimePkg, result, jsxStart, findJSXEnd(result, jsxStart))

\* The for loop of transformExpressionJSX: [text, status].
transformLoop(runtimePkg, result) ==
  transformFrom(runtimePkg, result, findJSXStart(result))

transformExpressionJSX(g, expr) == transformLoop(g.runtimePkg, expr)

\* The JSXText case of generateJSXChild from text on.
writeText(g, text) ==
  IF text = <<>> THEN g
  ELSE write(g, Bytes("gox.Text(") \o Quote(text) \o Bytes(")"))

\* The JSXExpression case of generateJSXChild from idx on.
writeValue(g, transformed, idx) ==
  IF idx # -1
    THEN write(g, Bytes("gox.When(")
                    \o TrimSpace(Slice(transformed, 0, idx))
                    \o Bytes(", ")
                    \o TrimSpace(Slice(transformed, idx + 4, Len(transformed)))
                    \o Bytes(")"))
    ELSE write(g, Bytes("gox.V(") \o transformed \o Bytes(")"))

\* The JSXExpression case of generateJSXChild after transformExpressionJSX
\* came to t.
writeTransformed(g, t) ==
  IF t.status # "run" THEN [g EXCEPT !.status = t.status]
  ELSE writeValue(g, t.text, Index(t.text, Bytes(" && ")))

\* The JSXExpression case of generateJSXChild from expr on.
writeExpression(g, expr) ==
  IF emptyOrComment(expr) THEN g
  ELSE writeTransformed(g, transformExpressionJSX(g, expr))

generateJSXChild(g, child) ==
  IF g.status # "run" THEN g
  ELSE IF child.kind = "JSXText" THEN writeText(g, TrimSpace(child.Value))
  ELSE IF child.kind = "JSXExpression"
    THEN writeExpression(g, TrimSpace(child.Expression))
  ELSE IF child.kind = "JSXElement" THEN generateJSXElement(g, child)
  ELSE IF child.kind = "JSXFragment" THEN generateJSXFragment(g, child)
  ELSE g

generateNode(g, node) ==
  IF g.status # "run" THEN g
  ELSE IF node.kind = "GoCode"
    THEN writeWithMapping(g, node.Value, node.Range.Start.Line, node.Range.Start.Column)
  ELSE IF node.kind = "JSXElement" THEN generateJSXElement(g, node)
  ELSE IF node.kind = "JSXFragment" THEN generateJSXFragment(g, node)
  ELSE g

generateNodes(g, nodes, i) ==
  IF i > Len(nodes) THEN g ELSE generateNodes(generateNode(g, nodes[i]), nodes, i + 1)

hasJSX(file) ==
  \E i \in 1..Len(file.Nodes) : file.Nodes[i].kind \in {"JSXElement", "JSXFragment"}

\* code[lo:] of Go.
From(code, lo) == Slice(code, lo, Len(code))

\* insertRuntimeImport, single import, from importEnd on.
singleToBlock(g, code, importPos, afterImport, importEnd) ==
  IF importEnd = -1 THEN code
  ELSE Slice(code, 0, importPos) \o Bytes("import (\n\t\"") \o g.runtimePkg
         \o Bytes("\"\n\t") \o TrimSpace(Slice(afterImport, 0, importEnd)) \o Bytes("\n)")
         \o From(code, importPos + 7 + importEnd)

\* insertRuntimeImport, an import found near the package clause.
addToImport(g, code, importPos, afterImport) ==
  IF Len(afterImport) > 0 /\ afterImport[1] = Ord("(")
    THEN Slice(code, 0, importPos + 7 + 1) \o <<chNewline, chTab, chQuote>>
           \o g.runtimePkg \o <<chQuote>> \o From(code, importPos + 7 + 1)
    ELSE singleToBlock(g, code, importPos, afterImport, Index(afterImport, <<chNewline>>))

\* insertRuntimeImport from importIdx on.
insertAt(g, code, insertPos, importIdx) ==
  IF importIdx # -1 /\ importIdx < 100
    THEN addToImport(g, code, insertPos + importIdx, From(code, insertPos + importIdx + 7))
    ELSE Slice(code, 0, insertPos) \o Bytes("\nimport \"") \o g.runtimePkg
           \o Bytes("\"\n") \o From(code, insertPos)

\* insertRuntimeImport from insertPos on.
afterPackageLine(g, code, insertPos) ==
  insertAt(g, code, insertPos, Index(From(code, insertPos), Bytes("import ")))

\* insertRuntimeImport from newlineIdx on.
afterPackage(g, code, pkgIdx, newlineIdx) ==
  IF newlineIdx = -1 THEN code ELSE afterPackageLine(g, code, pkgIdx + newlineIdx + 1)

\* insertRuntimeImport from pkgIdx on.
fromPackage(g, code, pkgIdx) ==
  IF pkgIdx = -1 THEN code
  ELSE afterPackage(g, code, pkgIdx, Index(From(code, pkgIdx), <<chNewline>>))

insertRuntimeImport(g, src) ==
  IF Contains(src, g.runtimePkg) THEN src
  ELSE fromPackage(g, src, Index(src, Bytes("package ")))

\* One rewriting gofmt performs: a file ends with exactly one newline.
RECURSIVE dropFinalNewlines(_)
dropFinalNewlines(s) ==
  IF s # <<>> /\ s[Len(s)] = chNewline THEN dropFinalNewlines(SubSeq(s, 1, Len(s) - 1))
  ELSE s

\* go/format.Source is the Go library and the grammar of Go is not part of
\* this model: the call has three outcomes, any of which the assembled
\* text may meet.  It is rejected; it is returned as it is; it is returned
\* rewritten.
FormatSource(result) ==
  {[err |-> TRUE, out |-> <<>>],
   [err |-> FALSE, out |-> result],
   [err |-> FALSE, out |-> dropFinalNewlines(result) \o <<chNewline>>]}

(***************************************************************************)
(* The transpilation of one file: the inputs.                              *)
(***************************************************************************)
\* The characters of the exhaustive inputs: < > / a " { } space, the
\* two-byte letters U+00E9 (lower case, first byte 0xC3) and U+05D1
\* (first byte 0xD7).
LexAlphabet ==
  {<<chLT>>, <<chGT>>, <<chSlash>>, Bytes("a"), <<chQuote>>, <<chLBrace>>, <<chRBrace>>,
   <<chSpace>>, <<195, 169>>, <<215, 145>>}

\* Every text of exactly n characters of LexAlphabet.
RECURSIVE Texts(_)
Texts(n) ==
  IF n = 0 THEN {<<>>} ELSE {s \o c : s \in Texts(n - 1), c \in LexAlphabet}

LexInputs == UNION {Texts(n) : n \in 0..MaxLen}

\* Whole files: markup after a package clause with no import, with a single
\* import, with an import block, and with an import of a sub-package of the
\* runtime package (the README's first example); host code only; a
\* component, an element with attributes and children, a fragment; an
\* expression child holding markup that does not parse.
SampleFiles ==
  {Bytes("package main\n\nvar x = <a/>\n"),
   Bytes("package main\nimport \"fmt\"\nvar x = <a/>\n"),
   Bytes("package main\nimport (\n\t\"fmt\"\n)\nvar x = <a/>\n"),
   Bytes("package main\nimport \"github.com/germtb/gox/runtime\"\nvar x = <a/>\n"),
   Bytes("package main\n\nvar x = a < b\n"),
   Bytes("package main\n\nvar x = a<b\n"),
   Bytes("a < a"),
   Bytes("x := <Box a=\"b\" c={d}>hi {y}</Box>"),
   Bytes("<><b {...p} c=\"1\"/>t</>\n"),
   Bytes("<") \o <<195, 137>> \o Bytes("/>"),
   Bytes("<a>{<b></c>}</a>")}

\* Elements whose closing tag names another tag than the opening one:
\* <X attrs>kids</Y>post.
MismatchTags ==
  {<<Bytes("a"), Bytes("b")>>, <<Bytes("Box"), Bytes("a")>>, <<Bytes("a"), Bytes("A")>>}

MismatchAttrs == {<<>>, Bytes(" k=\"1\"")}

MismatchKids == {<<>>, Bytes("t"), Bytes("<c/>"), Bytes("{y}")}

MismatchPosts == {<<>>, Bytes("y"), Bytes("<d/>")}

MismatchCases ==
  {[X |-> t[1], Y |-> t[2], attrs |-> a, kids |-> k, post |-> q] :
     t \in MismatchTags, a \in MismatchAttrs, k \in MismatchKids, q \in MismatchPosts}

\* The text of case c with closeTag as the name of its closing tag.
ElementText(c, closeTag) ==
  Bytes("<") \o c.X \o c.attrs \o Bytes(">") \o c.kids \o Bytes("</") \o closeTag
    \o Bytes(">") \o c.post

MismatchInputs == {ElementText(c, c.Y) : c \in MismatchCases}

\* Attribute lists: up to MaxAttrs attributes, each a string attribute, an
\* expression attribute, a spread or an expression attribute with "-" in
\* its name; on a self-closing component <Box .../> and on a self-closing
\* intrinsic element <a .../>.
MaxAttrs == 3

AttrPieces ==
  {[text |-> Bytes(" a=\"b\""), kind |-> "string", key |-> Bytes("a"), val |-> Bytes("b")],
   [text |-> Bytes(" c={d}"), kind |-> "expression", key |-> Bytes("c"), val |-> Bytes("d")],
   [text |-> Bytes(" {...p}"), kind |-> "spread", key |-> <<>>, val |-> Bytes("p")],
   [text |-> Bytes(" e-f={g.h}"), kind |-> "expression", key |-> Bytes("e-f"),
    val |-> Bytes("g.h")]}

AttrLists == UNION {[1..n -> AttrPieces] : n \in 0..MaxAttrs}

RECURSIVE AttrsText(_, _)
AttrsText(l, i) == IF i > Len(l) THEN <<>> ELSE l[i].text \o AttrsText(l, i + 1)

ComponentText(l) == Bytes("<Box") \o AttrsText(l, 1) \o Bytes("/>")

IntrinsicText(l) == Bytes("<a") \o AttrsText(l, 1) \o Bytes("/>")

AttrInputs == {ComponentText(l) : l \in AttrLists} \cup {IntrinsicText(l) : l \in AttrLists}

\* Child lists: up to MaxKids children, each a text run, a blank text run,
\* an expression, a block comment, a blank expression, a self-closing
\* element, two block comments, or a line comment followed by a line of
\* code; body is the text or the expression as written and out the call
\* written for the child when it is written.  Two text runs never stand
\* side by side, since the lexer reads them as one.
MaxKids == 2

ChildPieces ==
  {[text |-> Bytes("t"), kind |-> "text", body |-> Bytes("t"),
    out |-> Bytes("gox.Text(\"t\")")],
   [text |-> Bytes(" "), kind |-> "text", body |-> Bytes(" "), out |-> <<>>],
   [text |-> Bytes("{y}"), kind |-> "expr", body |-> Bytes("y"), out |-> Bytes("gox.V(y)")],
   [text |-> Bytes("{/* c */}"), kind |-> "expr", body |-> Bytes("/* c */"),
    out |-> Bytes("gox.V(/* c */)")],
   [text |-> Bytes("{ }"), kind |-> "expr", body |-> Bytes(" "), out |-> Bytes("gox.V()")],
   [text |-> Bytes("<c/>"), kind |-> "elem", body |-> <<>>,
    out |-> Bytes("gox.Element(\"c\", nil)")],
   [text |-> Bytes("{/* c */ /* d */}"), kind |-> "expr", body |-> Bytes("/* c */ /* d */"),
    out |-> Bytes("gox.V(/* c */ /* d */)")],
   [text |-> Bytes("{// c\ny}"), kind |-> "expr", body |-> Bytes("// c\ny"),
    out |-> Bytes("gox.V(// c\ny)")]}

ChildLists ==
  {l \in UNION {[1..n -> ChildPieces] : n \in 0..MaxKids} :
     \A i \in 1..(Len(l) - 1) : ~(l[i].kind = "text" /\ l[i + 1].kind = "text")}

RECURSIVE KidsText(_, _)
KidsText(l, i) == IF i > Len(l) THEN <<>> ELSE l[i].text \o KidsText(l, i + 1)

ElementWithKids(l) == Bytes("<a>") \o KidsText(l, 1) \o Bytes("</a>")

FragmentWithKids(l) == Bytes("<>") \o KidsText(l, 1) \o Bytes("</>")

ChildInputs ==
  {ElementWithKids(l) : l \in ChildLists} \cup {FragmentWithKids(l) : l \in ChildLists}

\* Text runs between the tags of <a>...</a>: with and without white space
\* before, after and inside; the text of TestGenerateElementWithTextChild.
TextRuns ==
  {Bytes("t"), Bytes(" t"), Bytes("t "), Bytes(" t "), Bytes("t u"), Bytes("t  u"),
   Bytes("  t u  "), Bytes("Hello World")}

ElementWithText(t) == Bytes("<a>") \o t \o Bytes("</a>")

TextInputs == {ElementWithText(t) : t \in TextRuns}

\* Expression children of <a>{...}</a>: text is the expression as written
\* and plain the same expression with the markup in it replaced by the
\* call generated for that markup.  A plain operand, a conjunction, a
\* disjunction, a conjunction in the argument of a call, in parentheses
\* and in a string literal, a chain of two conjunctions, and a conjunction
\* whose right operand is markup.
CondExprs ==
  {[text |-> Bytes("y"), plain |-> Bytes("y")],
   [text |-> Bytes("x && y"), plain |-> Bytes("x && y")],
   [text |-> Bytes("x || y"), plain |-> Bytes("x || y")],
   [text |-> Bytes("f(x && y)"), plain |-> Bytes("f(x && y)")],
   [text |-> Bytes("(x && y)"), plain |-> Bytes("(x && y)")],
   [text |-> Bytes("\"a && b\""), plain |-> Bytes("\"a && b\"")],
   [text |-> Bytes("x && y && z"), plain |-> Bytes("x && y && z")],
   [text |-> Bytes("x && <b/>"), plain |-> Bytes("x && gox.Element(\"b\", nil)")]}

ElementWithExpr(e) == Bytes("<a>{") \o e.text \o Bytes("}</a>")

CondInputs == {ElementWithExpr(e) : e \in CondExprs}

\* Expressions between braces in markup mode, each with balanced braces
\* outside its literals and well-formed markup: an operand, a composite
\* literal, a brace in a string, character and raw-string literal, markup
\* that is self-closing, with a text child, with an expression attribute,
\* with ">" in a string attribute, with ">" in an expression attribute and
\* with a brace in a string attribute; and the value of
\* TestLexComplexExpression.
BraceExprs ==
  {Bytes("y"), Bytes("{k: 1}"), Bytes("\"}\""), Bytes("'}'"),
   <<chBacktick, chRBrace, chBacktick>>,
   Bytes("<b/>"), Bytes("<b>t</b>"), Bytes("<b c={x}/>"), Bytes("<b c=\">\"/>"),
   Bytes("<b c={x > y}/>"), Bytes("<b c=\"}\"/>"),
   Bytes("{color: \"blue\", padding: 10}")}

\* {E} as the child of an element and as the value of an attribute.
ExprAsChild(E) == Bytes("<a>{") \o E \o Bytes("}</a>")

ExprAsAttr(E) == Bytes("<a b={") \o E \o Bytes("}>")

BraceInputs == {ExprAsChild(E) : E \in BraceExprs} \cup {ExprAsAttr(E) : E \in BraceExprs}

\* Expression children of <a>{...}</a> with markup in them: text is the
\* expression as written and plain the same expression with every balanced
\* markup substring replaced by the call generated for it.  Markup alone,
\* as the argument of a call, twice in one expression, with a text child;
\* a comparison, which holds no markup; and markup that does not parse
\* (its closing tag names another tag), which is not balanced.
MarkupExprs ==
  {[text |-> Bytes("<b/>"), plain |-> Bytes("gox.Element(\"b\", nil)")],
   [text |-> Bytes("f(<b/>)"), plain |-> Bytes("f(gox.Element(\"b\", nil))")],
   [text |-> Bytes("g(<b/>, <C/>)"),
    plain |-> Bytes("g(gox.Element(\"b\", nil), C(CProps{}))")],
   [text |-> Bytes("<b>t</b>"), plain |-> Bytes("gox.Element(\"b\", nil,\ngox.Text(\"t\"))")],
   [text |-> Bytes("x < y"), plain |-> Bytes("x < y")],
   [text |-> Bytes("<b></c>"), plain |-> Bytes("<b></c>")]}

MarkupInputs == {ElementWithExpr(e) : e \in MarkupExprs}

Inputs ==
  LexInputs \cup SampleFiles \cup MismatchInputs \cup AttrInputs \cup ChildInputs
    \cup TextInputs \cup CondInputs \cup BraceInputs \cup MarkupInputs

\* Options.RuntimePackage: left empty, or a path of the caller.
RuntimePackages == {<<>>, Bytes("example.com/ui")}

\* NextToken calls followed per input.
MaxTokens == 8

(***************************************************************************)
(* State.  A behaviour of Spec takes one input text either through a       *)
(* direct run of the lexer (NextToken after NextToken) or through the      *)
(* pipeline of cmd/gox: Parse, then Generate.  A behaviour of SpecSM is a  *)
(* client of the SourceMap calling AddMapping and AddExpression.           *)
(***************************************************************************)
VARIABLES
  input,     \* the source text
  lexer,     \* the Lexer of the direct run
  tokens,    \* what its NextToken calls returned: [tok, from, to], with the
             \* lexer's pos before and after the call
  slice,     \* the bounds [lo, hi] of the input slice the last call took
  phase,     \* "start", "lexing", "panic", "hang", "parsed", "generating", "done"
  file,      \* what Parse returned: [status, Nodes, errors]
  gen,       \* the Generator
  nodeIdx,   \* the node Generate's loop comes to next
  marks,     \* len(buf) before each node that was generated
  output,    \* what Generate returned: [assembled, bytes, formatErr]
  sm,        \* the SourceMap of the client
  calls,     \* the client's calls so far
  files,     \* processFiles: per file, what processFile returns for it
  parallel,  \* cfg.parallel
  mainPc,    \* where processFiles stands
  spawned,   \* the goroutines the loop of processFiles has started
  worker,    \* where the goroutine of each file stands
  semaphore, \* len(semaphore)
  errChan,   \* the files whose errors are in errChan, oldest first
  wg,        \* the counter of the WaitGroup
  processed, \* per file, the calls of processFile so far
  ret,       \* what processFiles returned: [returned, failed]
  fileContents, \* Proxy.fileContents: .gox path -> current content
  sourceMaps,   \* Proxy.sourceMaps: .gox path -> cached SourceMap
  disk,         \* the .gox files on disk: path -> content
  msgs,         \* the messages the proxy has handled, oldest first
  reply,        \* what the last formatting request worked on
  finds      \* the FindTargetLine and FindSourceLine calls of the client

\* The state of processFiles.
poolVars ==
  <<files, parallel, mainPc, spawned, worker, semaphore, errChan, wg, processed, ret>>

\* The state of the LSP proxy.
proxyVars == <<fileContents, sourceMaps, disk, msgs, reply>>

\* The state outside the pipeline and the SourceMap client.
sideVars == <<poolVars, proxyVars, finds>>

vars ==
  <<input, lexer, tokens, slice, phase, file, gen, nodeIdx, marks, output, sm, calls,
    sideVars>>

pipelineVars == <<input, lexer, tokens, slice, phase, file, gen, nodeIdx, marks, output>>

NoFile == [status |-> "none", Nodes |-> <<>>, errors |-> <<>>, err |-> NilError]

NoOutput ==
  [assembled |-> <<>>, bytes |-> <<>>, formatErr |-> FALSE, returned |-> FALSE,
   err |-> NilError]

\* processFiles is not running.
NoReturn == [returned |-> FALSE, failed |-> 0]

PoolIdle ==
  /\ files = <<>>
  /\ parallel = 0
  /\ mainPc = "idle"
  /\ spawned = 0
  /\ worker = <<>>
  /\ semaphore = 0
  /\ errChan = <<>>
  /\ wg = 0
  /\ processed = <<>>
  /\ ret = NoReturn

NoReply == [uri |-> <<>>, content |-> <<>>, from |-> "none"]

\* The proxy is not running.
ProxyIdle ==
  /\ fileContents = EmptyMap
  /\ sourceMaps = EmptyMap
  /\ disk = EmptyMap
  /\ msgs = <<>>
  /\ reply = NoReply

\* Nothing but the pipeline or the SourceMap client is running.
SideIdle == PoolIdle /\ ProxyIdle /\ finds = <<>>

Init ==
  /\ input \in Inputs
  /\ lexer = NewLexer(input)
  /\ tokens = <<>>
  /\ slice = [lo |-> 0, hi |-> 0]
  /\ phase = "start"
  /\ file = NoFile
  /\ gen = New(<<>>)
  /\ nodeIdx = 0
  /\ marks = <<>>
  /\ output = NoOutput
  /\ sm = NewSourceMap
  /\ calls = <<>>
  /\ SideIdle

\* The direct run has come to the end of the input.
ReturnedEOF == tokens # <<>> /\ tokens[Len(tokens)].tok.Type = "EOF"

\* Lexer.NextToken, called by a client of the lexer until it returns EOF.
NextToken ==
  /\ phase \in {"start", "lexing"}
  /\ Len(tokens) < MaxTokens
  /\ ~ReturnedEOF
  /\ LET r == LexNextToken(lexer)
     IN /\ slice' = [lo |-> r.lo, hi |-> r.hi]
        /\ IF r.ok
             THEN /\ lexer' = r.lex
                  /\ tokens' = Append(tokens, [tok |-> r.tok, from |-> lexer.pos,
                                               to |-> r.lex.pos])
                  /\ phase' = "lexing"
             ELSE /\ phase' = "panic"
                  /\ UNCHANGED <<lexer, tokens>>
  /\ UNCHANGED <<input, file, gen, nodeIdx, marks, output, sm, calls, sideVars>>

\* parser.Parse(filename, src), as processFile calls it.  It returns, or
\* the lexer's panic ends it, or one of its loops never ends.  When Parse
\* returns an error processFile returns it and generates nothing ("failed").
ParseFile ==
  /\ phase = "start"
  /\ file' = Parse(input)
  /\ phase' = IF file'.status # "ok" THEN file'.status
              ELSE IF file'.errors # <<>> THEN "failed"
              ELSE "parsed"
  /\ UNCHANGED <<input, lexer, tokens, slice, gen, nodeIdx, marks, output, sm, calls, sideVars>>

\* generator.Generate(file, opts) up to its loop: New and hasJSX.
GenerateStart ==
  /\ phase = "parsed"
  /\ \E pkg \in RuntimePackages :
       gen' = [New(pkg) EXCEPT !.needsImport = hasJSX(file)]
  /\ nodeIdx' = 1
  /\ marks' = <<>>
  /\ phase' = "generating"
  /\ UNCHANGED <<input, lexer, tokens, slice, file, output, sm, calls, sideVars>>

\* One turn of Generate's loop: generateNode(node).
GenerateNode ==
  /\ phase = "generating"
  /\ gen.status = "run"
  /\ nodeIdx <= Len(file.Nodes)
  /\ gen' = generateNode(gen, file.Nodes[nodeIdx])
  /\ marks' = Append(marks, Len(gen.buf))
  /\ nodeIdx' = nodeIdx + 1
  /\ UNCHANGED <<input, lexer, tokens, slice, phase, file, output, sm, calls, sideVars>>

\* The rest of Generate: the runtime import, format.Source, the return.
GenerateFinish ==
  /\ phase = "generating"
  /\ gen.status = "run"
  /\ nodeIdx > Len(file.Nodes)
  /\ LET result == IF gen.needsImport THEN insertRuntimeImport(gen, gen.buf) ELSE gen.buf
     IN \E f \in FormatSource(result) :
          output' = [assembled |-> result,
                     bytes |-> IF f.err THEN result ELSE f.out,
                     formatErr |-> f.err,
                     returned |-> TRUE,
                     err |-> NilError]
  /\ phase' = "done"
  /\ UNCHANGED <<input, lexer, tokens, slice, file, gen, nodeIdx, marks, sm, calls, sideVars>>

Next ==
  \/ NextToken
  \/ ParseFile
  \/ GenerateStart
  \/ GenerateNode
  \/ GenerateFinish

Spec == Init /\ [][Next]_vars

(***************************************************************************)
(* A client of the SourceMap.                                              *)
(***************************************************************************)
\* Lines and columns the client's calls name.
MaxLine == 1

MaxCol == 1

\* Calls per behaviour.
MaxCalls == 2

Lines == 0..MaxLine

Cols == 0..MaxCol

\* The texts of the client's AddExpression calls: one character, a line
\* break, a two-byte character.
ExprValues == {Bytes("a"), <<chNewline>>, <<195, 169>>}

\* The columns the client's lookups name: they reach past every mapped
\* column by more than the backward search of TargetPositionFromSource.
QueryCols == 0..(MaxCol + 6)

InitSM ==
  /\ input = <<>>
  /\ lexer = NewLexer(<<>>)
  /\ tokens = <<>>
  /\ slice = [lo |-> 0, hi |-> 0]
  /\ phase = "client"
  /\ file = NoFile
  /\ gen = New(<<>>)
  /\ nodeIdx = 0
  /\ marks = <<>>
  /\ output = NoOutput
  /\ sm = NewSourceMap
  /\ calls = <<>>
  /\ SideIdle

\* sm.AddMapping(sl, sc, tl, tc)
AddMappingCall ==
  /\ phase = "client"
  /\ Len(calls) < MaxCalls
  /\ \E sl \in Lines, sc \in Cols, tl \in Lines, tc \in Cols :
       /\ sm' = AddMapping(sm, sl, sc, tl, tc)
       /\ calls' = Append(calls, [op |-> "AddMapping", value |-> <<>>,
                                  sl |-> sl, sc |-> sc, tl |-> tl, tc |-> tc])
  /\ UNCHANGED <<pipelineVars, sideVars>>

\* sm.AddExpression(value, (sl, sc), (tl, 0)): a text written at the start
\* of a target line.
AddExpressionCall ==
  /\ phase = "client"
  /\ Len(calls) < MaxCalls
  /\ \E value \in ExprValues, sl \in Lines, sc \in Cols, tl \in Lines :
       /\ sm' = AddExpression(sm, value, NewPosition(0, sl, sc), NewPosition(0, tl, 0))
       /\ calls' = Append(calls, [op |-> "AddExpression", value |-> value,
                                  sl |-> sl, sc |-> sc, tl |-> tl, tc |-> 0])
  /\ UNCHANGED <<pipelineVars, sideVars>>

NextSM ==
  \/ AddMappingCall
  \/ AddExpressionCall

SpecSM == InitSM /\ [][NextSM]_vars

(***************************************************************************)
(* The client of the SourceMap also calling FindTargetLine and             *)
(* FindSourceLine, as the LSP proxy does for line-level translation.       *)
(***************************************************************************)
\* Find calls followed per behaviour.
MaxFinds == 2

\* sm.FindTargetLine(line)
FindTargetLineCall ==
  /\ phase = "client"
  /\ Len(finds) < MaxFinds
  /\ \E line \in Lines :
       \E r \in FindTargetLine(sm, line) :
         finds' = Append(finds, [op |-> "FindTargetLine", line |-> line, sm |-> sm,
                                 result |-> r])
  /\ UNCHANGED <<pipelineVars, sm, calls, poolVars, proxyVars>>

\* sm.FindSourceLine(line)
FindSourceLineCall ==
  /\ phase = "client"
  /\ Len(finds) < MaxFinds
  /\ \E line \in Lines :
       \E r \in FindSourceLine(sm, line) :
         finds' = Append(finds, [op |-> "FindSourceLine", line |-> line, sm |-> sm,
                                 result |-> r])
  /\ UNCHANGED <<pipelineVars, sm, calls, poolVars, proxyVars>>

NextFind ==
  \/ AddMappingCall
  \/ AddExpressionCall
  \/ FindTargetLineCall
  \/ FindSourceLineCall

SpecFind == InitSM /\ [][NextFind]_vars

(***************************************************************************)
(* The LSP proxy's document cache: the handlers of textDocument/didOpen,   *)
(* didChange, didClose and formatting, which the proxy runs one message at *)
(* a time.  A message is [method, uri, text]; ioOk tells whether the       *)
(* MkdirAll and WriteFile of generateAndCache succeed.                     *)
(***************************************************************************)
\* Messages followed per behaviour.
MaxMsgs == 3

GoxUris == {Bytes("file:///a.gox"), Bytes("file:///b.gox")}

ProxyUris == GoxUris \cup {Bytes("file:///c.go")}

\* Document texts: markup, host code, and markup that does not parse.
\* Parse and Generate return on each of them.
ProxyTexts == {Bytes("<a/>"), Bytes("x"), Bytes("<a></b>")}

FileScheme == Bytes("file://")

GoxSuffix == Bytes(".gox")

uriToPath(uri) == IF HasPrefix(uri, FileScheme) THEN TrimPrefix(uri, FileScheme) ELSE uri

GoxPaths == {uriToPath(u) : u \in GoxUris}

\* The disk holds no .gox file, or one of another content for each path.
DiskStates == {EmptyMap, [p \in GoxPaths |-> Bytes("y")]}

\* delete(m, k)
MapDelete(m, k) == [x \in DOMAIN m \ {k} |-> m[x]]

\* strings.HasSuffix(uri, ".gox")
isGox(uri) == HasSuffix(uri, GoxSuffix)

\* The SourceMap generator.Generate(file, nil) returns.
GeneratedSourceMap(f) ==
  generateNodes([New(<<>>) EXCEPT !.needsImport = hasJSX(f)], f.Nodes, 1).sourceMap

\* parser.Parse(goxPath, text) and the SourceMap of generator.Generate for
\* each document text.
ProxyParsed == [t \in ProxyTexts |-> Parse(t)]

ProxyGenerated == [t \in ProxyTexts |-> GeneratedSourceMap(ProxyParsed[t])]

\* generateAndCache: p.sourceMaps as the call leaves it.  Nothing is cached
\* when Parse returns an error or the generated file cannot be written.
generateAndCache(maps, uri, text, ioOk) ==
  IF ProxyParsed[text].err # NilError \/ ~ioOk THEN maps
  ELSE MapPut(maps, uriToPath(uri), ProxyGenerated[text])

InitProxy ==
  /\ input = <<>>
  /\ lexer = NewLexer(<<>>)
  /\ tokens = <<>>
  /\ slice = [lo |-> 0, hi |-> 0]
  /\ phase = "proxy"
  /\ file = NoFile
  /\ gen = New(<<>>)
  /\ nodeIdx = 0
  /\ marks = <<>>
  /\ output = NoOutput
  /\ sm = NewSourceMap
  /\ calls = <<>>
  /\ PoolIdle
  /\ finds = <<>>
  /\ fileContents = EmptyMap
  /\ sourceMaps = EmptyMap
  /\ disk \in DiskStates
  /\ msgs = <<>>
  /\ reply = NoReply

\* handleDidOpen and handleDidChange from the text on: the content is
\* stored, then generateAndCache runs.
storeAndGenerate(method, uri, text, ioOk) ==
  /\ msgs' = Append(msgs, [method |-> method, uri |-> uri, text |-> text])
  /\ IF isGox(uri)
       THEN /\ fileContents' = MapPut(fileContents, uriToPath(uri), text)
            /\ sourceMaps' = generateAndCache(sourceMaps, uri, text, ioOk)
       ELSE UNCHANGED <<fileContents, sourceMaps>>
  /\ UNCHANGED <<disk, reply>>
  /\ UNCHANGED <<pipelineVars, sm, calls, poolVars, finds>>

handleDidOpen ==
  /\ phase = "proxy"
  /\ Len(msgs) < MaxMsgs
  /\ \E uri \in ProxyUris, text \in ProxyTexts, ioOk \in BOOLEAN :
       storeAndGenerate("didOpen", uri, text, ioOk)

handleDidChange ==
  /\ phase = "proxy"
  /\ Len(msgs) < MaxMsgs
  /\ \E uri \in ProxyUris, text \in ProxyTexts, ioOk \in BOOLEAN :
       storeAndGenerate("didChange", uri, text, ioOk)

handleDidClose ==
  /\ phase = "proxy"
  /\ Len(msgs) < MaxMsgs
  /\ \E uri \in ProxyUris :
       /\ msgs' = Append(msgs, [method |-> "didClose", uri |-> uri, text |-> <<>>])
       /\ sourceMaps' = IF isGox(uri) THEN MapDelete(sourceMaps, uriToPath(uri))
                         ELSE sourceMaps
  /\ UNCHANGED <<fileContents, disk, reply>>
  /\ UNCHANGED <<pipelineVars, sm, calls, poolVars, finds>>

\* The content handleFormatting works on: the stored content, else the
\* file read from disk, else the "File not found" error; a uri that is not
\* a .gox one is left to gopls.
formattingContent(uri) ==
  IF ~isGox(uri) THEN [uri |-> uri, content |-> <<>>, from |-> "gopls"]
  ELSE IF uriToPath(uri) \in DOMAIN fileContents
    THEN [uri |-> uri, content |-> fileContents[uriToPath(uri)], from |-> "cache"]
  ELSE IF uriToPath(uri) \in DOMAIN disk
    THEN [uri |-> uri, content |-> disk[uriToPath(uri)], from |-> "disk"]
  ELSE [uri |-> uri, content |-> <<>>, from |-> "error"]

handleFormatting ==
  /\ phase = "proxy"
  /\ Len(msgs) < MaxMsgs
  /\ \E uri \in ProxyUris :
       /\ msgs' = Append(msgs, [method |-> "formatting", uri |-> uri, text |-> <<>>])
       /\ reply' = formattingContent(uri)
  /\ UNCHANGED <<fileContents, sourceMaps, disk>>
  /\ UNCHANGED <<pipelineVars, sm, calls, poolVars, finds>>

NextProxy ==
  \/ handleDidOpen
  \/ handleDidChange
  \/ handleDidClose
  \/ handleFormatting

SpecProxy == InitProxy /\ [][NextProxy]_vars

(***************************************************************************)
(* processFiles of cmd/gox: one goroutine per file, each taking a slot of  *)
(* the semaphore channel around its processFile call and sending the       *)
(* error, if any, to errChan; the caller waits on the WaitGroup, closes    *)
(* errChan and counts the errors.  processFile returns nil ("ok") or an     *)
(* error ("fail"); on a file for which parser.Parse or generator.Generate  *)
(* does not return it never returns ("hang") or panics ("panic"), and a    *)
(* panic in a goroutine ends the program.                                  *)
(***************************************************************************)
\* Files per call, and the greatest value of -parallel.
MaxFiles == 3

MaxParallel == 2

Outcomes == {"ok", "fail", "hang", "panic"}

FileLists == UNION {[1..n -> Outcomes] : n \in 0..MaxFiles}

\* flag.IntVar takes every integer: negative, zero, positive.
ParallelValues == -1..MaxParallel

InitPool ==
  /\ input = <<>>
  /\ lexer = NewLexer(<<>>)
  /\ tokens = <<>>
  /\ slice = [lo |-> 0, hi |-> 0]
  /\ phase = "pool"
  /\ file = NoFile
  /\ gen = New(<<>>)
  /\ nodeIdx = 0
  /\ marks = <<>>
  /\ output = NoOutput
  /\ sm = NewSourceMap
  /\ calls = <<>>
  /\ files \in FileLists
  /\ parallel \in ParallelValues
  /\ mainPc = "make"
  /\ spawned = 0
  /\ worker = [f \in 1..Len(files) |-> "none"]
  /\ semaphore = 0
  /\ errChan = <<>>
  /\ wg = 0
  /\ processed = [f \in 1..Len(files) |-> 0]
  /\ ret = NoReturn
  /\ ProxyIdle
  /\ finds = <<>>

\* A send on a channel holding len elements of capacity cap goes through
\* with no receiver waiting.
CanSendAlways(len, cap) == TRUE

\* A send on a channel holding len elements of capacity cap goes through
\* when the buffer has room; no goroutine of processFiles receives from
\* semaphore or errChan while another one sends, so an unbuffered or full
\* channel blocks the sender.
CanSend(len, cap) == len < cap

\* errChan := make(chan error, len(files)); semaphore := make(chan
\* struct{}, cfg.parallel).  make panics on a negative size.
MakeChannels ==
  /\ mainPc = "make"
  /\ mainPc' = IF parallel < 0 THEN "panic" ELSE "spawn"
  /\ UNCHANGED <<files, parallel, spawned, worker, semaphore, errChan, wg, processed, ret>>
  /\ UNCHANGED <<pipelineVars, sm, calls, proxyVars, finds>>

\* One turn of the loop over files: wg.Add(1) and the go statement.
Spawn ==
  /\ mainPc = "spawn"
  /\ spawned < Len(files)
  /\ wg' = wg + 1
  /\ spawned' = spawned + 1
  /\ worker' = [worker EXCEPT ![spawned + 1] = "acquire"]
  /\ UNCHANGED <<files, parallel, mainPc, semaphore, errChan, processed, ret>>
  /\ UNCHANGED <<pipelineVars, sm, calls, proxyVars, finds>>

\* semaphore <- struct{}{} of the goroutine of file f, which then enters
\* processFile.
Acquire(f) ==
  /\ mainPc = "spawn"
  /\ worker[f] = "acquire"
  /\ CanSend(semaphore, parallel)
  /\ semaphore' = semaphore + 1
  /\ worker' = [worker EXCEPT ![f] = "inside"]
  /\ processed' = [processed EXCEPT ![f] = @ + 1]
  /\ UNCHANGED <<files, parallel, mainPc, spawned, errChan, wg, ret>>
  /\ UNCHANGED <<pipelineVars, sm, calls, proxyVars, finds>>

\* processFile(f, cfg) returns or panics.
ProcessFile(f) ==
  /\ mainPc = "spawn"
  /\ worker[f] = "inside"
  /\ files[f] # "hang"
  /\ worker' = [worker EXCEPT ![f] = IF files[f] = "fail" THEN "send"
                                     ELSE IF files[f] = "panic" THEN "panicked"
                                     ELSE "release"]
  /\ mainPc' = IF files[f] = "panic" THEN "panic" ELSE mainPc
  /\ UNCHANGED <<files, parallel, spawned, semaphore, errChan, wg, processed, ret>>
  /\ UNCHANGED <<pipelineVars, sm, calls, proxyVars, finds>>

\* errChan <- fmt.Errorf(...)
SendError(f) ==
  /\ mainPc = "spawn"
  /\ worker[f] = "send"
  /\ CanSend(Len(errChan), Len(files))
  /\ errChan' = Append(errChan, f)
  /\ worker' = [worker EXCEPT ![f] = "release"]
  /\ UNCHANGED <<files, parallel, mainPc, spawned, semaphore, wg, processed, ret>>
  /\ UNCHANGED <<pipelineVars, sm, calls, proxyVars, finds>>

\* The deferred <-semaphore.
Release(f) ==
  /\ mainPc = "spawn"
  /\ worker[f] = "release"
  /\ semaphore > 0
  /\ semaphore' = semaphore - 1
  /\ worker' = [worker EXCEPT ![f] = "done"]
  /\ UNCHANGED <<files, parallel, mainPc, spawned, errChan, wg, processed, ret>>
  /\ UNCHANGED <<pipelineVars, sm, calls, proxyVars, finds>>

\* The deferred wg.Done().
Done(f) ==
  /\ mainPc = "spawn"
  /\ worker[f] = "done"
  /\ wg' = wg - 1
  /\ worker' = [worker EXCEPT ![f] = "exited"]
  /\ UNCHANGED <<files, parallel, mainPc, spawned, semaphore, errChan, processed, ret>>
  /\ UNCHANGED <<pipelineVars, sm, calls, proxyVars, finds>>

\* wg.Wait() comes back, then close(errChan), the range over errChan and
\* the return: nil, or the error counting the errors received.
WaitAndReturn ==
  /\ mainPc = "spawn"
  /\ spawned = Len(files)
  /\ wg = 0
  /\ mainPc' = "returned"
  /\ ret' = [returned |-> TRUE, failed |-> Len(errChan)]
  /\ UNCHANGED <<files, parallel, spawned, worker, semaphore, errChan, wg, processed>>
  /\ UNCHANGED <<pipelineVars, sm, calls, proxyVars, finds>>

NextPool ==
  \/ MakeChannels
  \/ Spawn
  \/ \E f \in 1..Len(files) : Acquire(f)
  \/ \E f \in 1..Len(files) : ProcessFile(f)
  \/ \E f \in 1..Len(files) : SendError(f)
  \/ \E f \in 1..Len(files) : Release(f)
  \/ \E f \in 1..Len(files) : Done(f)
  \/ WaitAndReturn

SpecPool == InitPool /\ [][NextPool]_vars

\* The Go scheduler runs a goroutine that can take a step.
SpecPoolFair == SpecPool /\ WF_vars(NextPool)

(***************************************************************************)
(* Properties of the SourceMap, checked under SpecSM.                      *)
(***************************************************************************)
\* Every call so far was a call of AddMapping.
OnlyAddMapping == \A i \in 1..Len(calls) : calls[i].op = "AddMapping"

\* What a lookup returns when it finds the position (line, col).
Found(line, col) == [pos |-> NewPosition(0, line, col), ok |-> TRUE]

\* No call after the i-th names the source position of the i-th.
LastForSource(i) ==
  \A j \in (i + 1)..Len(calls) : ~(calls[j].sl = calls[i].sl /\ calls[j].sc = calls[i].sc)

\* No call after the i-th names the target position of the i-th.
LastForTarget(i) ==
  \A j \in (i + 1)..Len(calls) : ~(calls[j].tl = calls[i].tl /\ calls[j].tc = calls[i].tc)

C9_DirectionsMirror ==
  /\ \A s \in DOMAIN sm.SourceToTarget :
       /\ <<sm.SourceToTarget[s].Line, sm.SourceToTarget[s].Column>>
            \in DOMAIN sm.TargetToSource
       /\ sm.TargetToSource[<<sm.SourceToTarget[s].Line, sm.SourceToTarget[s].Column>>]
            = NewPosition(0, s[1], s[2])
  /\ \A t \in DOMAIN sm.TargetToSource :
       /\ <<sm.TargetToSource[t].Line, sm.TargetToSource[t].Column>>
            \in DOMAIN sm.SourceToTarget
       /\ sm.SourceToTarget[<<sm.TargetToSource[t].Line, sm.TargetToSource[t].Column>>]
            = NewPosition(0, t[1], t[2])

\* The mapped columns before col on a source line.
MappedBefore(line, col) ==
  {c \in 0..(col - 1) : <<line, c>> \in DOMAIN sm.SourceToTarget}

\* The nearest of them.
NearestBefore(line, col) ==
  CHOOSE c \in MappedBefore(line, col) : \A d \in MappedBefore(line, col) : d <= c

\* What C10 says TargetPositionFromSource(line, col) returns.
C10_Expected(line, col) ==
  IF <<line, col>> \in DOMAIN sm.SourceToTarget
    THEN [pos |-> sm.SourceToTarget[<<line, col>>], ok |-> TRUE]
  ELSE IF MappedBefore(line, col) # {} /\ col - NearestBefore(line, col) <= 5
    THEN Found(sm.SourceToTarget[<<line, NearestBefore(line, col)>>].Line,
               sm.SourceToTarget[<<line, NearestBefore(line, col)>>].Column
                 + (col - NearestBefore(line, col)))
  ELSE NotFound

\* C10: TargetPositionFromSource(line, col) returns the entry of (line, col)
\* if it is mapped; otherwise, if the nearest mapped column c < col of the
\* line has col - c <= 5 (column 0 included), the target of c moved right by
\* col - c; otherwise not found.
C10_BackwardSearch ==
  \A line \in Lines, col \in QueryCols :
    TargetPositionFromSource(sm, line, col) = C10_Expected(line, col)

\* The lines the client's lookups name: one more than the mapped ones.
QueryLines == 0..(MaxLine + 1)

\* The greatest number of a non-empty set.
Greatest(S) == CHOOSE x \in S : \A y \in S : y <= x

\* The mapped columns of a target line, and those up to col.
TargetCols(line) == {k[2] : k \in {x \in DOMAIN sm.TargetToSource : x[1] = line}}

TargetColsUpTo(line, col) == {c \in TargetCols(line) : c <= col}

\* The target lines before line that have entries.
EarlierLines(line) == {l \in 0..(line - 1) : TargetCols(l) # {}}

\* The highest-column mapping of the nearest preceding line with entries.
FromEarlierLines(line) ==
  IF EarlierLines(line) = {} THEN NotFound
  ELSE [pos |-> sm.TargetToSource[<<Greatest(EarlierLines(line)),
                                    Greatest(TargetCols(Greatest(EarlierLines(line))))>>],
        ok |-> TRUE]

\* The mapping at the greatest mapped column up to col of the line.
FromSameLine(line, col) ==
  [pos |-> sm.TargetToSource[<<line, Greatest(TargetColsUpTo(line, col))>>], ok |-> TRUE]

\* C11, as stated: SourcePositionFromTarget(line, col) returns an exact hit;
\* on a miss the source of the greatest mapped column below col on that
\* line; it scans the preceding lines only when the queried line has no
\* entries at all; it reports not found only when no such mapping exists.
C11_ScansOnlyFromEmptyLine ==
  \A line \in QueryLines, col \in QueryCols :
    SourcePositionFromTarget(sm, line, col) =
      IF TargetColsUpTo(line, col) # {} THEN FromSameLine(line, col)
      ELSE IF TargetCols(line) = {} THEN FromEarlierLines(line)
      ELSE NotFound

\* C11, amended: SourcePositionFromTarget(line, col) returns an exact hit;
\* on a miss the source of the greatest mapped column below col on that
\* line; when the line has no mapped column up to col (no entries at all,
\* or entries after col only) it returns the highest-column mapping of the
\* nearest preceding line that has entries; otherwise not found.
C11_ScansWhenNothingUpToCol ==
  \A line \in QueryLines, col \in QueryCols :
    SourcePositionFromTarget(sm, line, col) =
      IF TargetColsUpTo(line, col) # {} THEN FromSameLine(line, col)
      ELSE FromEarlierLines(line)

\* Target line 1 has an entry at column 1 only, line 0 has entries, and the
\* lookup of (1, 0) answers with the last entry of line 0.
C11_Witness ==
  /\ TargetCols(1) = {1}
  /\ TargetCols(0) # {}
  /\ SourcePositionFromTarget(sm, 1, 0) =
       [pos |-> sm.TargetToSource[<<0, Greatest(TargetCols(0))>>], ok |-> TRUE]

(***************************************************************************)
(* Properties of the lexer, the parser and the generator, checked under    *)
(* Spec.                                                                   *)
(***************************************************************************)
\* C1: for every input, every token other than end-of-input that NextToken
\* returns consumes at least one input character, and Parse returns.
C1_EveryTokenConsumes ==
  /\ \A i \in 1..Len(tokens) :
       tokens[i].tok.Type # "EOF" => tokens[i].to > tokens[i].from
  /\ phase # "hang"

\* C2: for every input, NextToken and Parse return and never abort: every
\* slice of the input taken for a token value has
\* 0 <= start <= end <= len(input).
C2_NeverAborts ==
  /\ 0 <= slice.lo /\ slice.lo <= slice.hi /\ slice.hi <= Len(input)
  /\ phase # "panic"

\* Host text with nothing a markup literal could start at: lower-case
\* letters, spaces, line breaks and "=".
PlainHost(s) ==
  \A i \in 1..Len(s) : (s[i] >= 97 /\ s[i] <= 122) \/ s[i] \in {chSpace, chNewline, chEquals}

HasWord(s) == \E i \in 1..Len(s) : s[i] >= 97 /\ s[i] <= 122

\* A comparison "x < y" in host text, with any spacing around the operator.
HostComparison(s) ==
  \E i \in 1..Len(s) :
    /\ s[i] = chLT
    /\ PlainHost(SubSeq(s, 1, i - 1)) /\ HasWord(SubSeq(s, 1, i - 1))
    /\ PlainHost(SubSeq(s, i + 1, Len(s))) /\ HasWord(SubSeq(s, i + 1, Len(s)))

\* Host-language source with no markup in it.
PureHost(s) == s # <<>> /\ (PlainHost(s) \/ HostComparison(s))

\* C3: for every input that is host-language source with no markup,
\* whatever the spacing around a "<" comparison operator, the lexer yields
\* one GO_CODE token holding the whole input and then EOF, the tree has no
\* markup node, and Generate emits the host text unchanged before
\* formatting and inserts no runtime import.
C3_HostCodePassesThrough ==
  PureHost(input) =>
    /\ ReturnedEOF =>
         /\ Len(tokens) = 2
         /\ tokens[1].tok.Type = "GO_CODE"
         /\ tokens[1].tok.Value = input
    /\ file.status = "ok" => ~hasJSX(file)
    /\ phase = "done" => (output.assembled = input /\ ~gen.needsImport)

\* The character at offset i of s may start an identifier.
IdentStartAt(s, i) == i < Len(s) /\ isIdentStart(DecodeRune(s, i).r)

\* A "<" at offset i of s followed by an identifier-start character, by
\* ">", by "/>", or by "/" and an identifier.
MarkupStartAt(s, i) ==
  /\ i < Len(s)
  /\ ByteAt(s, i) = chLT
  /\ \/ IdentStartAt(s, i + 1)
     \/ (i + 1 < Len(s) /\ ByteAt(s, i + 1) = chGT)
     \/ /\ i + 1 < Len(s)
        /\ ByteAt(s, i + 1) = chSlash
        /\ \/ (i + 2 < Len(s) /\ ByteAt(s, i + 2) = chGT)
           \/ IdentStartAt(s, i + 2)

FirstMarkupStart(s) == firstOf({i \in 0..(Len(s) - 1) : MarkupStartAt(s, i)})

\* Host text without a string literal or a comment in it.
NoLiteralOrComment(s) ==
  /\ \A i \in 1..Len(s) : s[i] # chQuote
  /\ \A i \in 1..(Len(s) - 1) : ~(s[i] = chSlash /\ s[i + 1] = chSlash)

\* The tokens that open markup.
MarkupOpenTypes == {"JSX_OPEN", "JSX_FRAG_OPEN", "JSX_FRAG_CLOSE"}

\* C4: in host-code mode the lexer switches to markup mode at a "<" if and
\* only if that "<" is outside literals and comments and is followed by an
\* identifier-start character, by ">", by "/>", or by "/" plus an
\* identifier; the host text before it is flushed as one GO_CODE token.
C4_SwitchesAtMarkupStart ==
  (NoLiteralOrComment(input) /\ input # <<>> /\ tokens # <<>>) =>
    IF FirstMarkupStart(input) = -1
      THEN tokens[1].tok.Type = "GO_CODE" /\ tokens[1].tok.Value = input
    ELSE IF FirstMarkupStart(input) = 0
      THEN tokens[1].tok.Type \in MarkupOpenTypes
    ELSE /\ tokens[1].tok.Type = "GO_CODE"
         /\ tokens[1].tok.Value = Slice(input, 0, FirstMarkupStart(input))
         /\ Len(tokens) >= 2 => tokens[2].tok.Type \in MarkupOpenTypes

\* The text Generate's loop wrote for the i-th node.
Emitted(i) ==
  Slice(gen.buf, marks[i], IF i < Len(marks) THEN marks[i + 1] ELSE Len(gen.buf))

\* The component call form: Tag(TagProps{
ComponentForm(tag, text) ==
  HasPrefix(text, tag \o Bytes("(") \o tag \o Bytes("Props{"))

\* The generic call form: gox.Element("tag",
ElementForm(tag, text) ==
  HasPrefix(text, Bytes("gox.Element(") \o Quote(tag) \o Bytes(", "))

\* C5: for every tag name the lexer accepts, Generate emits the element as
\* a component call if and only if the first character of the name is an
\* upper-case letter, and otherwise as the generic Element call; exactly
\* one of the two forms is emitted.
C5_ComponentIffUpperCase ==
  \A i \in 1..Len(marks) :
    (gen.status = "run" /\ file.Nodes[i].kind = "JSXElement") =>
      /\ ComponentForm(file.Nodes[i].Tag, Emitted(i))
           <=> IsUpper(DecodeRune(file.Nodes[i].Tag, 0).r)
      /\ ElementForm(file.Nodes[i].Tag, Emitted(i))
           <=> ~IsUpper(DecodeRune(file.Nodes[i].Tag, 0).r)

\* The input opens with a package clause on a line of its own.
HasPackageLine(s) == HasPrefix(s, Bytes("package ")) /\ Contains(s, <<chNewline>>)

\* C6: whenever the tree given to Generate holds a markup node, the text
\* Generate returns contains an import of the configured runtime package
\* path.
C6_RuntimeImported ==
  (phase = "done" /\ hasJSX(file) /\ HasPackageLine(input)) =>
    Contains(output.bytes, <<chQuote>> \o gen.runtimePkg \o <<chQuote>>)

\* The offsets of s at which a character starts.
RECURSIVE RuneStartsFrom(_, _)
RuneStartsFrom(s, i) ==
  IF i >= Len(s) THEN {} ELSE {i} \cup RuneStartsFrom(s, i + DecodeRune(s, i).size)

\* The 0-indexed line of offset k of s.
LineOf(s, k) == Cardinality({i \in 1..k : s[i] = chNewline})

\* The offset at which the line of offset k starts.
LineStart(s, k) ==
  IF \E i \in 1..k : s[i] = chNewline
    THEN CHOOSE i \in 1..k : s[i] = chNewline /\ \A j \in (i + 1)..k : s[j] # chNewline
    ELSE 0

\* The 0-indexed column, in characters, of offset k of s.
ColumnOf(s, k) ==
  Cardinality({j \in RuneStartsFrom(s, 0) : LineStart(s, k) <= j /\ j < k})

\* The offset of the character at (line, col) of s, -1 when there is none.
OffsetAt(s, line, col) ==
  firstOf({j \in RuneStartsFrom(s, 0) : LineOf(s, j) = line /\ ColumnOf(s, j) = col})

\* The offsets of the input's host-code characters.
HostOffsets ==
  {k \in RuneStartsFrom(input, 0) :
     \E n \in 1..Len(file.Nodes) :
       /\ file.Nodes[n].kind = "GoCode"
       /\ file.Nodes[n].Range.Start.Offset <= k
       /\ k < file.Nodes[n].Range.Start.Offset + Len(file.Nodes[n].Value)}

\* The target position the returned SourceMap stores for offset k.
TargetOf(k) == gen.sourceMap.SourceToTarget[<<LineOf(input, k), ColumnOf(input, k)>>]

\* C7: for every host-code character of the input, the target position
\* stored for it in the SourceMap Generate returns is the (line, column) at
\* which that character stands in the text Generate returns, whenever the
\* formatter leaves the assembled text unchanged.
C7_TargetsStandInOutput ==
  (phase = "done" /\ ~output.formatErr /\ output.bytes = output.assembled) =>
    \A k \in HostOffsets :
      /\ <<LineOf(input, k), ColumnOf(input, k)>> \in DOMAIN gen.sourceMap.SourceToTarget
      /\ OffsetAt(output.bytes, TargetOf(k).Line, TargetOf(k).Column) # -1
      /\ DecodeRune(output.bytes,
                    OffsetAt(output.bytes, TargetOf(k).Line, TargetOf(k).Column)).r
           = DecodeRune(input, k).r

(***************************************************************************)
(* AddExpression, checked under SpecSM.                                    *)
(***************************************************************************)
\* The number of characters of a line of text.
CharCount(line) == Cardinality(RuneStartsFrom(line, 0))

\* The source and the target position AddExpression is said to pair for
\* character offset j of the i-th line (i >= 0) of call c.
ExprSource(c, i, j) == <<c.sl + i, (IF i = 0 THEN c.sc ELSE 0) + j>>

ExprTarget(c, i, j) == <<c.tl + i, (IF i = 0 THEN c.tc ELSE 0) + j>>

\* C12: AddExpression(text, (sl, sc), (tl, tc)) adds, for the i-th line of
\* text and every character offset j of that line plus the line's end
\* offset, the mapping source (sl+i, s0+j) -> target (tl+i, t0+j), where
\* s0 = sc and t0 = tc for i = 0 and s0 = t0 = 0 for i > 0.
C12_ExpressionMappings ==
  (calls # <<>> /\ calls[Len(calls)].op = "AddExpression") =>
    \A i \in 0..(Len(SplitLines(calls[Len(calls)].value)) - 1) :
      \A j \in 0..CharCount(SplitLines(calls[Len(calls)].value)[i + 1]) :
        /\ ExprSource(calls[Len(calls)], i, j) \in DOMAIN sm.SourceToTarget
        /\ sm.SourceToTarget[ExprSource(calls[Len(calls)], i, j)] =
             NewPosition(0, ExprTarget(calls[Len(calls)], i, j)[1],
                            ExprTarget(calls[Len(calls)], i, j)[2])
        /\ ExprTarget(calls[Len(calls)], i, j) \in DOMAIN sm.TargetToSource
        /\ sm.TargetToSource[ExprTarget(calls[Len(calls)], i, j)] =
             NewPosition(0, ExprSource(calls[Len(calls)], i, j)[1],
                            ExprSource(calls[Len(calls)], i, j)[2])

(***************************************************************************)
(* Properties of the parser, checked under Spec.                           *)
(***************************************************************************)
\* processFile's call of Parse has just ended.
AfterParse == phase \in {"parsed", "failed", "panic", "hang"}

\* A top-level node without its positions.
TopShape(n) ==
  IF n.kind = "GoCode" THEN <<n.kind, n.Value>>
  ELSE IF n.kind = "JSXElement" THEN <<n.kind, n.Tag, n.SelfClosing>>
  ELSE <<n.kind>>

\* C13: for an element whose attributes and children are well-formed and
\* whose closing tag names Y different from its opening name X, Parse
\* records exactly one error, "mismatched closing tag: expected </X>, got
\* </Y>" at the position of Y; the element keeps tag X, its attributes and
\* its parsed children, the closing tag is consumed and the text after it
\* is parsed as it is parsed alone.
C13_MismatchedClosingTag ==
  \A c \in MismatchCases :
    (AfterParse /\ input = ElementText(c, c.Y)) =>
      /\ file.status = "ok"
      /\ Len(file.errors) = 1
      /\ file.errors[1].msg = <<"mismatched closing tag: expected, got", c.X, c.Y>>
      /\ file.errors[1].Line = 1
      /\ file.errors[1].Column = Len(input) - Len(c.post) - Len(c.Y)
      /\ Len(file.Nodes) = 1 + Len(Parse(c.post).Nodes)
      /\ file.Nodes[1].kind = "JSXElement"
      /\ file.Nodes[1].Tag = c.X
      /\ file.Nodes[1].Attributes = Parse(ElementText(c, c.X)).Nodes[1].Attributes
      /\ file.Nodes[1].Children = Parse(ElementText(c, c.X)).Nodes[1].Children
      /\ Parse(ElementText(c, c.X)).errors = <<>>
      /\ \A i \in 1..Len(Parse(c.post).Nodes) :
           TopShape(file.Nodes[i + 1]) = TopShape(Parse(c.post).Nodes[i])

\* Parse has returned for <X k="1"><c/></Y><d/>: one error, the element
\* with its child, and the element after it.
C13_Witness ==
  \E c \in MismatchCases :
    /\ input = ElementText(c, c.Y)
    /\ c.attrs # <<>> /\ c.kids = Bytes("<c/>") /\ c.post = Bytes("<d/>")
    /\ phase = "failed"
    /\ Len(file.errors) = 1
    /\ Len(file.Nodes) = 2
    /\ Len(file.Nodes[1].Children) = 1
    /\ file.Nodes[2].Tag = Bytes("d")

\* C14: Parse always returns a tree; the error it returns is nil if and only
\* if no parse error was recorded, and otherwise it is the error recorded
\* first; recording an error does not stop the parsing of the nodes that
\* follow it.
C14_ParseReturnsTreeAndFirstError ==
  AfterParse =>
    /\ file.status = "ok"
    /\ (file.err = NilError) <=> (file.errors = <<>>)
    /\ file.errors # <<>> => file.err = file.errors[1]
    /\ \A c \in MismatchCases :
         input = ElementText(c, c.Y) => Len(file.Nodes) = 1 + Len(Parse(c.post).Nodes)

\* Every self-closing element of the tree under node n has no children.
RECURSIVE SelfClosingHaveNoChildren(_)
SelfClosingHaveNoChildren(n) ==
  IF n.kind = "JSXElement"
    THEN /\ n.SelfClosing => n.Children = <<>>
         /\ \A i \in 1..Len(n.Children) : SelfClosingHaveNoChildren(n.Children[i])
  ELSE IF n.kind = "JSXFragment"
    THEN \A i \in 1..Len(n.Children) : SelfClosingHaveNoChildren(n.Children[i])
  ELSE TRUE

\* Some element of the tree under node n is self-closing.
RECURSIVE HasSelfClosing(_)
HasSelfClosing(n) ==
  IF n.kind = "JSXElement"
    THEN n.SelfClosing \/ \E i \in 1..Len(n.Children) : HasSelfClosing(n.Children[i])
  ELSE IF n.kind = "JSXFragment"
    THEN \E i \in 1..Len(n.Children) : HasSelfClosing(n.Children[i])
  ELSE FALSE

\* C15: in every tree returned by Parse, for any input including malformed
\* ones, every element with SelfClosing = true has an empty children list.
C15_SelfClosingHasNoChildren ==
  file.status = "ok" =>
    \A i \in 1..Len(file.Nodes) : SelfClosingHaveNoChildren(file.Nodes[i])

\* Parse has returned, with an error, a tree that has an element with a
\* self-closing element as its child.
C15_Witness ==
  /\ phase = "failed"
  /\ \E i \in 1..Len(file.Nodes) :
       /\ file.Nodes[i].kind = "JSXElement"
       /\ ~file.Nodes[i].SelfClosing
       /\ \E j \in 1..Len(file.Nodes[i].Children) : HasSelfClosing(file.Nodes[i].Children[j])

(***************************************************************************)
(* Properties of the generator, checked under Spec.                        *)
(***************************************************************************)
\* C16: Generate returns a nil error for every tree; when the formatter
\* rejects the assembled text, the bytes returned are exactly the assembled
\* text (after import injection), together with the SourceMap.
C16_GenerateReturnsNilError ==
  /\ phase \in {"generating", "done"} => gen.status = "run"
  /\ phase = "done" =>
       /\ output.returned
       /\ output.err = NilError
       /\ output.assembled =
            IF hasJSX(file) THEN insertRuntimeImport(gen, gen.buf) ELSE gen.buf
       /\ output.formatErr => output.bytes = output.assembled

\* A key with its first letter in upper case.
CapFirst(k) ==
  IF k # <<>> /\ k[1] >= 97 /\ k[1] <= 122 THEN <<k[1] - 32>> \o Tail(k) ELSE k

\* The texts of fs with ", " between them.
RECURSIVE CommaList(_, _)
CommaList(fs, i) ==
  IF i > Len(fs) THEN <<>>
  ELSE (IF i > 1 THEN Bytes(", ") ELSE <<>>) \o fs[i] \o CommaList(fs, i + 1)

\* The attributes of l that are no spread.
NonSpread(l) == SelectSeq(l, LAMBDA q : q.kind # "spread")

\* Field: value of attribute q in a typed props literal.
TypedFieldOf(q) ==
  CapFirst(q.key) \o Bytes(": ")
    \o (IF q.kind = "string" THEN <<chQuote>> \o q.val \o <<chQuote>> ELSE q.val)

\* The whole call C17 expects for <Box l/>.
ExpectedComponentCall(l) ==
  Bytes("Box(BoxProps{")
    \o CommaList([i \in 1..Len(NonSpread(l)) |-> TypedFieldOf(NonSpread(l)[i])], 1)
    \o Bytes("})")

\* Each component input paired with the call expected for it.
ComponentTable == {<<ComponentText(l), ExpectedComponentCall(l)>> : l \in AttrLists}

PropsEntryOf(q) ==
  <<chQuote>> \o q.key \o <<chQuote>> \o Bytes(": ")
    \o (IF q.kind = "string" THEN <<chQuote>> \o q.val \o <<chQuote>> ELSE q.val)

\* The map literal holding the attributes of run, in order.
MapLiteral(run) ==
  Bytes("gox.Props{") \o CommaList([i \in 1..Len(run) |-> PropsEntryOf(run[i])], 1)
    \o Bytes("}")

\* The arguments of the merge call for the attributes of l from the i-th
\* on, run being the non-spread attributes passed since the last spread.
RECURSIVE MergeArgs(_, _, _)
MergeArgs(l, i, run) ==
  IF i > Len(l) THEN (IF run = <<>> THEN <<>> ELSE <<MapLiteral(run)>>)
  ELSE IF l[i].kind = "spread"
    THEN (IF run = <<>> THEN <<>> ELSE <<MapLiteral(run)>>) \o <<l[i].val>>
           \o MergeArgs(l, i + 1, <<>>)
  ELSE MergeArgs(l, i + 1, Append(run, l[i]))

\* The props argument C18 expects for the attributes l.
ExpectedProps(l) ==
  IF l = <<>> THEN Bytes("nil")
  ELSE IF NonSpread(l) = l THEN MapLiteral(l)
  ELSE Bytes("gox.MergeProps(") \o CommaList(MergeArgs(l, 1, <<>>), 1) \o Bytes(")")

\* Each intrinsic input paired with the call expected for it.
IntrinsicTable ==
  {<<IntrinsicText(l), Bytes("gox.Element(\"a\", ") \o ExpectedProps(l) \o Bytes(")")>> :
     l \in AttrLists}

\* C18: for an intrinsic element with at least one spread attribute the
\* props argument is a merge call whose arguments are one map literal per
\* maximal run of consecutive non-spread attributes and one argument per
\* spread attribute (its expression text), in original attribute order;
\* with no spread it is a single map literal of all attributes in order,
\* and with no attributes it is nil.
C18_PropsArgument ==
  \A e \in IntrinsicTable :
    (phase \in {"generating", "done"} /\ Len(marks) = 1 /\ input = e[1]) =>
      gen.buf = e[2]

\* Generate has written the call for <a a="b" {...p} c={d}/>.
C18_Witness ==
  /\ input = Bytes("<a a=\"b\" {...p} c={d}/>")
  /\ phase = "done"
  /\ gen.buf =
       Bytes("gox.Element(\"a\", gox.MergeProps(gox.Props{\"a\": \"b\"}, p, gox.Props{\"c\": d}))")

\* s is made of white space only.
WhitespaceOnly(s) == \A i \in 1..Len(s) : IsSpace(s[i])

\* The offset just after the first "*/" of s at or after offset i, or -1.
RECURSIVE CommentEnd(_, _)
CommentEnd(s, i) ==
  IF i + 1 >= Len(s) THEN -1
  ELSE IF ByteAt(s, i) = chStar /\ ByteAt(s, i + 1) = chSlash THEN i + 2
  ELSE CommentEnd(s, i + 1)

\* The offset just after the first line end of s at or after offset i, or
\* the length of s.
RECURSIVE LineEnd(_, _)
LineEnd(s, i) ==
  IF i >= Len(s) THEN Len(s)
  ELSE IF ByteAt(s, i) = chNewline THEN i + 1
  ELSE LineEnd(s, i + 1)

\* s from offset i on holds nothing but Go comments and white space.
RECURSIVE OnlyComments(_, _)
OnlyComments(s, i) ==
  IF i >= Len(s) THEN TRUE
  ELSE IF IsSpace(ByteAt(s, i)) THEN OnlyComments(s, i + 1)
  ELSE IF i + 1 < Len(s) /\ ByteAt(s, i) = chSlash /\ ByteAt(s, i + 1) = chStar
    THEN CommentEnd(s, i + 2) >= 0 /\ OnlyComments(s, CommentEnd(s, i + 2))
  ELSE IF i + 1 < Len(s) /\ ByteAt(s, i) = chSlash /\ ByteAt(s, i + 1) = chSlash
    THEN OnlyComments(s, LineEnd(s, i + 2))
  ELSE FALSE

\* The child q is one C19 has dropped.
Dropped(q) ==
  \/ q.kind = "text" /\ WhitespaceOnly(q.body)
  \/ q.kind = "expr" /\ OnlyComments(q.body, 0)

\* The calls C19 expects for the children l, in order.
KeptCalls(l) ==
  LET kept == SelectSeq(l, LAMBDA q : ~Dropped(q))
  IN [i \in 1..Len(kept) |-> kept[i].out]

\* strings.Join(fs, ",\n") from the i-th on.
RECURSIVE LineList(_, _)
LineList(fs, i) ==
  IF i > Len(fs) THEN <<>>
  ELSE IF i = Len(fs) THEN fs[i]
  ELSE fs[i] \o <<Ord(","), chNewline>> \o LineList(fs, i + 1)

ExpectedElementWithKids(l) ==
  Bytes("gox.Element(\"a\", nil")
    \o (IF KeptCalls(l) = <<>> THEN <<>>
        ELSE <<Ord(","), chNewline>> \o LineList(KeptCalls(l), 1))
    \o Bytes(")")

ExpectedFragmentWithKids(l) ==
  Bytes("gox.Fragment(") \o LineList(KeptCalls(l), 1) \o Bytes(")")

\* Each element and fragment input paired with the call expected for it.
ChildTable ==
  {<<ElementWithKids(l), ExpectedElementWithKids(l)>> : l \in ChildLists}
    \cup {<<FragmentWithKids(l), ExpectedFragmentWithKids(l)>> : l \in ChildLists}

\* C19: the child arguments written for an element or a fragment are, in
\* source order, exactly its children that are neither white-space-only
\* text nor expressions made only of comments and white space.
C19_KeptChildren ==
  (phase \in {"generating", "done"} /\ Len(marks) = 1) =>
    \A e \in ChildTable : input = e[1] => gen.buf = e[2]

\* Each text input paired with the call C20 expects for it: one text
\* leaf whose string is the text run as it stands (the runs hold no
\* character that a Go string literal escapes).
TextTable ==
  {<<ElementWithText(t),
     Bytes("gox.Element(\"a\", nil,\ngox.Text(\"") \o t \o Bytes("\"))")>> :
     t \in TextRuns}

\* C20: a text child that is not white-space-only is written as one text
\* leaf call whose string argument equals the text run exactly as it
\* stands between the tags, leading, trailing and inner white space kept.
C20_TextKeptAsWritten ==
  (phase \in {"generating", "done"} /\ Len(marks) = 1) =>
    \A e \in TextTable : input = e[1] => gen.buf = e[2]

\* The offsets of the "&&" of s, from offset i on, that stand outside
\* parentheses and outside string literals; depth counts the parentheses
\* open at i and inString tells whether i is inside a string literal.
RECURSIVE TopLevelAnds(_, _, _, _)
TopLevelAnds(s, i, depth, inString) ==
  IF i >= Len(s) THEN {}
  ELSE IF inString
    THEN TopLevelAnds(s, i + 1, depth, ByteAt(s, i) # chQuote)
  ELSE IF ByteAt(s, i) = chQuote THEN TopLevelAnds(s, i + 1, depth, TRUE)
  ELSE IF ByteAt(s, i) = Ord("(") THEN TopLevelAnds(s, i + 1, depth + 1, FALSE)
  ELSE IF ByteAt(s, i) = Ord(")") THEN TopLevelAnds(s, i + 1, depth - 1, FALSE)
  ELSE IF depth = 0 /\ i + 1 < Len(s) /\ ByteAt(s, i) = Ord("&")
          /\ ByteAt(s, i + 1) = Ord("&")
    THEN {i} \cup TopLevelAnds(s, i + 2, depth, FALSE)
  ELSE TopLevelAnds(s, i + 1, depth, FALSE)

\* The conditional call for the expression s whose one top-level "&&" is
\* at offset k.
WhenCall(s, k) ==
  Bytes("gox.When(") \o TrimSpace(Slice(s, 0, k)) \o Bytes(", ")
    \o TrimSpace(Slice(s, k + 2, Len(s))) \o Bytes(")")

\* The call C21 expects for the expression s.
ExpectedExprCall(s) ==
  IF Cardinality(TopLevelAnds(s, 0, 0, FALSE)) = 1
    THEN WhenCall(s, CHOOSE k \in TopLevelAnds(s, 0, 0, FALSE) : TRUE)
    ELSE Bytes("gox.V(") \o s \o Bytes(")")

\* Each expression input paired with the text expected for it.
CondTable ==
  {<<ElementWithExpr(e),
     Bytes("gox.Element(\"a\", nil,\n") \o ExpectedExprCall(e.plain) \o Bytes(")")>> :
     e \in CondExprs}

\* C21: an expression child is written as the conditional call When(c, n)
\* if and only if its whole text has the form c && n with that && at the
\* top level of the expression (not inside parentheses, a string literal
\* or a longer && chain); every other expression child is written as the
\* coerce-to-node call around the expression text unchanged.
C21_WhenIffTopLevelAnd ==
  (phase \in {"generating", "done"} /\ Len(marks) = 1) =>
    \A e \in CondTable : input = e[1] => gen.buf = e[2]

(***************************************************************************)
(* Properties of the lexer in markup mode.                                 *)
(***************************************************************************)
\* Each input of BraceInputs with the index of the NextToken call that
\* meets its "{", the expression E and the offset just after the "}" that
\* matches that "{".
BraceTable ==
  {[text |-> ExprAsChild(E), idx |-> 4, E |-> E, end |-> 4 + Len(E) + 1] :
     E \in BraceExprs}
    \cup {[text |-> ExprAsAttr(E), idx |-> 5, E |-> E, end |-> 6 + Len(E) + 1] :
             E \in BraceExprs}

\* C22: for {E} met in markup mode, E with balanced braces outside its
\* literals and well-formed nested markup, the expression token's value is
\* exactly E and the lexer resumes right after the "}" matching the "{".
C22_ExpressionTokenIsE ==
  phase = "lexing" =>
    \A e \in BraceTable :
      (input = e.text /\ Len(tokens) >= e.idx) =>
        /\ tokens[e.idx].tok.Type = "JSX_EXPR"
        /\ tokens[e.idx].tok.Value = e.E
        /\ tokens[e.idx].to = e.end

(***************************************************************************)
(* Properties of the generator on expressions that hold markup.            *)
(***************************************************************************)
\* Each input of MarkupInputs paired with the text expected for it.
MarkupTable ==
  {<<ElementWithExpr(e), Bytes("gox.Element(\"a\", nil,\ngox.V(") \o e.plain \o Bytes("))")>> :
     e \in MarkupExprs}

\* C23: for every expression child text, whether or not the markup in it
\* parses without error, transformExpressionJSX terminates, and on return
\* every balanced markup substring of the expression has been replaced by
\* the call text generated for it, the rest being unchanged.
C23_TransformTerminates ==
  (phase \in {"generating", "done"} /\ Len(marks) = 1) =>
    \A e \in MarkupTable :
      input = e[1] => (gen.status = "run" /\ gen.buf = e[2])

(***************************************************************************)
(* Properties of the generator's position tracking.                        *)
(***************************************************************************)
\* The first node of the file is host code and no other node has been
\* generated yet: the output cursor stood at (0, 0) when its first
\* character was written.
FirstHostEmitted ==
  /\ phase \in {"generating", "done"}
  /\ Len(marks) = 1
  /\ file.Nodes[1].kind = "GoCode"

\* The output cursor of write at the moment the character at offset k of
\* the text s is written, the cursor standing at (0, 0) before s.
CursorAt(s, k) == <<LineOf(s, k), ColumnOf(s, k)>>

\* The source position of the character at offset k of the first node.
FirstHostSource(k) ==
  <<LineOf(input, file.Nodes[1].Range.Start.Offset + k),
    ColumnOf(input, file.Nodes[1].Range.Start.Offset + k)>>

\* C24: while a HostCode node is emitted, the target position recorded for
\* each of its characters equals the output cursor (outLine, outCol) at the
\* moment that character is written, for every host text, multi-byte
\* characters and embedded newlines included.
C24_TargetIsCursor ==
  FirstHostEmitted =>
    \A k \in RuneStartsFrom(file.Nodes[1].Value, 0) :
      /\ FirstHostSource(k) \in DOMAIN gen.sourceMap.SourceToTarget
      /\ gen.sourceMap.SourceToTarget[FirstHostSource(k)].Line
           = CursorAt(file.Nodes[1].Value, k)[1]
      /\ gen.sourceMap.SourceToTarget[FirstHostSource(k)].Column
           = CursorAt(file.Nodes[1].Value, k)[2]

(***************************************************************************)
(* Properties of the ranges of the tree Parse returns.                     *)
(***************************************************************************)
\* Parse has returned a tree.
ParseReturned == phase \in {"parsed", "failed", "generating", "done"}

\* The end of range r is not before its start.
EndNotBeforeStart(r) == r.Start.Offset <= r.End.Offset

\* Range r lies within range outer.
Within(r, outer) ==
  outer.Start.Offset <= r.Start.Offset /\ r.End.Offset <= outer.End.Offset

\* In the tree under node n every range ends at or after its start, and
\* every attribute and child lies within its element or fragment.
RECURSIVE RangesNested(_)
RangesNested(n) ==
  /\ EndNotBeforeStart(n.Range)
  /\ n.kind = "JSXElement" =>
       \A i \in 1..Len(n.Attributes) :
         EndNotBeforeStart(n.Attributes[i].Range) /\ Within(n.Attributes[i].Range, n.Range)
  /\ n.kind \in {"JSXElement", "JSXFragment"} =>
       \A i \in 1..Len(n.Children) :
         Within(n.Children[i].Range, n.Range) /\ RangesNested(n.Children[i])

\* C25: in every tree returned by Parse, with or without recorded errors,
\* each node's and each attribute's range has an end offset not before its
\* start offset, and the range of every attribute and child lies within the
\* range of the element or fragment that contains it.
C25_RangesNested ==
  ParseReturned => \A i \in 1..Len(file.Nodes) : RangesNested(file.Nodes[i])

(***************************************************************************)
(* Properties of processFiles, checked under SpecPool.                     *)
(***************************************************************************)
\* The files inside processFile.
Inside == {f \in 1..Len(files) : worker[f] = "inside"}

\* The files for which processFile returns an error.
Failing == {f \in 1..Len(files) : files[f] = "fail"}

\* C26: with a concurrency limit n >= 1 and any list of files,
\* processFiles never has more than n files inside processFile at the same
\* time, processes every file exactly once, and returns an error if and
\* only if at least one file failed, the error giving the number of failed
\* files.
C26_BoundedPool ==
  (phase = "pool" /\ parallel >= 1) =>
    /\ Cardinality(Inside) <= parallel
    /\ \A f \in 1..Len(files) : processed[f] <= 1
    /\ ret.returned =>
         /\ \A f \in 1..Len(files) : processed[f] = 1
         /\ ret.failed = Cardinality(Failing)

\* processFiles has returned the error for 2 failed files of 3, run with
\* -parallel 2.
C26_Witness ==
  /\ phase = "pool"
  /\ parallel = 2
  /\ Len(files) = 3
  /\ ret.returned
  /\ ret.failed = 2

\* Every processFile call returns.
EveryFileReturns == \A f \in 1..Len(files) : files[f] \in {"ok", "fail"}

\* C29: for every list of files and every integer value of the -parallel
\* option that the command line accepts, processFiles eventually returns:
\* no worker stays blocked for ever on acquiring the semaphore or on
\* sending its error.  Checked under SpecPoolFair.
C29_ProcessFilesReturns == EveryFileReturns => <>(mainPc = "returned")

(***************************************************************************)
(* Properties of the line lookups, checked under SpecFind.                 *)
(***************************************************************************)
\* C30: FindTargetLine and FindSourceLine are functions of the map
\* contents: two calls with the same line on the same unchanged SourceMap
\* return the same line, also when the mappings on that line point to
\* several different lines on the other side.
C30_FindsAreFunctions ==
  \A i, j \in 1..Len(finds) :
    (finds[i].op = finds[j].op /\ finds[i].line = finds[j].line /\ finds[i].sm = finds[j].sm)
      => finds[i].result = finds[j].result

(***************************************************************************)
(* Properties of the proxy's document cache, checked under SpecProxy.      *)
(***************************************************************************)
\* The index of the last didOpen, didChange or didClose for path, or 0.
LastDocMsg(path) ==
  LET hits == {i \in 1..Len(msgs) :
                 /\ msgs[i].method \in {"didOpen", "didChange", "didClose"}
                 /\ uriToPath(msgs[i].uri) = path}
  IN IF hits = {} THEN 0 ELSE CHOOSE i \in hits : \A j \in hits : j <= i

\* The .gox paths closed and not opened or changed since.
ClosedPaths ==
  {p \in GoxPaths : LastDocMsg(p) > 0 /\ msgs[LastDocMsg(p)].method = "didClose"}

\* The last message is a formatting request for path.
FormattingOf(path) ==
  /\ msgs # <<>>
  /\ msgs[Len(msgs)].method = "formatting"
  /\ uriToPath(msgs[Len(msgs)].uri) = path

\* C27: after a textDocument/didClose for a .gox document the proxy holds
\* no cached data for that path, neither its source map nor its stored
\* content, so a later formatting request for that path works on the file
\* read from disk and not on content cached by an earlier didOpen or
\* didChange.
C27_CloseDropsCache ==
  phase = "proxy" =>
    \A p \in ClosedPaths :
      /\ p \notin DOMAIN sourceMaps
      /\ p \notin DOMAIN fileContents
      /\ FormattingOf(p) => reply.from \in {"disk", "error"}

(***************************************************************************)
(* Properties of the lexer's mode, checked under Spec.                     *)
(***************************************************************************)
\* C28: after every NextToken call on any input, the markup nesting depth
\* is non-negative and the lexer is in markup mode if and only if that
\* depth is greater than zero: the lexer returns to host-code mode exactly
\* when every opened element or fragment has been closed.
C28_MarkupModeIffDepth ==
  (phase = "lexing" /\ tokens # <<>>) =>
    /\ lexer.jsxDepth >= 0
    /\ lexer.inJSX <=> lexer.jsxDepth > 0

====
